---- MODULE Spec2Model ----
(***************************************************************************)
(* EcoVision AI model validation and benchmarking harness.                 *)
(*                                                                         *)
(* Two entry points are modelled as step machines:                         *)
(*   - ModelTester.generate_test_report   (src/model_tester.py)            *)
(*   - model_validation.main              (src/model_validation.py)        *)
(* The Model Runtime (tf.lite.Interpreter), the process-memory probe       *)
(* (psutil) and the file system are the environment: every call into them  *)
(* either succeeds or raises, chosen nondeterministically.                 *)
(***************************************************************************)
EXTENDS Integers, Sequences, FiniteSets, TLC

(***************************************************************************)
(* Bounds of the model.                                                    *)
(***************************************************************************)
\* number of .tflite files the batch driver finds
NumModels == 2
\* distinct abstract payloads a successful check may return
NumPayloads == 2
\* largest warmup_iterations / num_iterations passed to test_inference_speed
MaxWarmup == 2
MaxIterations == 2
\* largest elapsed time, in timer ticks, one timed inference may take
MaxElapsed == 1
\* largest num_tests passed to test_numerical_stability
MaxNumTests == 5
\* largest num_tests passed to test_model_inference
MaxInferenceTests == 3
\* distinct contents np.random may give a sample input
NumInputs == 2
\* distinct resident-memory readings (in MB) the process may show
NumReadings == 2
\* most timing samples a latency statistic is computed over
MaxSamples == 4
\* largest timing sample, in units of 2^-56 s above 0.1 s
MaxOffset == 2
\* largest time dimension T and feature dimension F of an audio target shape
MaxSteps == 2
MaxBins == 2
\* most frames L the raw feature of an audio file has
MaxFrames == 3
\* distinct non-zero values an element of a raw audio feature may take
NumLevels == 2
\* most elements the input tensor of test_input_variations has
MaxElements == 2
\* most input tensors and most output tensors a model declares
MaxTensors == 2
\* most test files validate_model_accuracy finds
MaxFiles == 3

VARIABLES
    prog,               \* which entry point this run executes
    \* ---- ModelTester.generate_test_report ----
    output_path,        \* TRUE iff an output path was passed
    psutil_available,   \* TRUE iff "import psutil" succeeds on this host
    rpc,                \* position inside generate_test_report
    tests,              \* report['tests']
    rlog,               \* checks that were started, in order
    memSnapshot,        \* report['tests'] as it was when the memory check began
    rexc,               \* exception that left generate_test_report ("none" if none)
    rfile,              \* document written to output_path
    rret,               \* report returned to the caller
    interpreter,        \* self.interpreter: the handle opened by __init__
    report_uses,        \* which handle each check drove: [item, check, handle]
    \* ---- model_validation.main ----
    tflite_files,       \* the model files, in glob order
    vidx,               \* index of the model file being validated
    vpc,                \* position inside main
    model_info,         \* locals of the loop body
    inference_result,
    perf_result,
    accuracy_result,
    validation_results, \* the report mapping
    vlog,               \* checks that were run: <<file index, check, failure cause>>
    vexc,               \* exception that left main ("none" if none)
    vfile,              \* document written to model_validation_report.json
    vsummary,           \* names printed by the summary loop
    interpreters_opened, \* interpreters created so far by the check functions
    batch_uses,         \* which handle each check drove: [item, check, handle]
    is_audio,           \* the modality decided for the current file
    modality_passed,    \* the is_audio_model argument each check was called with
    \* ---- ModelTester.test_input_variations ----
    input_dtype,        \* dtype of the model's input tensor
    input_shape,        \* shape of the model's input tensor
    patterns,           \* the dict test_patterns: one tensor per pattern name
    pat_inputs,         \* the tensor handed to set_tensor by each inference
    pat_outputs,        \* the output get_tensor gave per pattern (None: it raised)
    pat_idx,            \* index of the pattern the loop is at
    results,            \* the mapping being built
    pat_calls,          \* patterns an inference was run on, in order
    pat_raised,         \* error the runtime raised per pattern ("none": it ran)
    pat_ret,            \* the returned mapping
    pat_exc,            \* exception that left the method ("none" if none)
    \* ---- test_inference_speed / benchmark_model_performance ----
    bfun,               \* which of the two benchmarks is running
    bench_is_audio,     \* the argument is_audio_model
    bench_rank,         \* len(input_shape)
    bench_dtype,        \* input_details[0]['dtype']
    warmup_iterations,
    num_iterations,
    bcall,              \* number of the benchmark call (1: first, 2: second)
    bpc,                \* position inside the benchmark
    bi,                 \* loop counter
    test_input,         \* the input tensor (its identity), 0 before it is built
    tensors_built,      \* input tensors built so far
    times,              \* elapsed times collected, each tagged with its call
    invocations,        \* every inference call: call, phase, tensor, elapsed, ok
    bret,               \* value returned by the last call
    bexc,               \* exception that left the call ("none" if none)
    bprinted,           \* error messages printed
    \* ---- ModelTester.test_numerical_stability ----
    num_tests,
    spc,                \* position inside the method
    si,                 \* loop counter
    stab_input,         \* the fixed test input
    stab_tensors,       \* input tensors built so far
    out_buffer,         \* the runtime's output tensor
    outputs,            \* the list of collected outputs
    produced,           \* what the runtime produced at each call, in order
    stab_calls,         \* the tensor passed to each inference call
    sret,               \* the returned result
    sexc,               \* exception that left the method ("none" if none)
    \* ---- test_model_inference ----
    is_audio_model,
    input_rank,         \* len(input_shape)
    inf_num_tests,
    model_fn,           \* the model: its output for every input content
    ipc,                \* position inside the function
    ii,                 \* loop counter
    inf_tensors,        \* input tensors created so far
    inf_inputs,         \* the input tensor fed to each inference call
    inf_results,        \* results: the collected outputs
    iret,               \* the returned dict
    \* ---- ModelTester.test_memory_usage ----
    mpc,                \* position inside the method
    mi,                 \* loop counter i
    baseline_memory,
    memory_usage,       \* the list of samples
    mem_events,         \* memory readings and inferences, in the order they happened
    mret,               \* the returned dict
    mexc,               \* exception that left the method ("none" if none)
    \* ---- the latency statistics of test_inference_speed ----
    lat_times,          \* the list times
    lat_pc,             \* "collect", then "done"
    lat_stats,          \* the returned statistics
    \* ---- preprocess_audio_for_model ----
    target_shape,
    audio_loadable,     \* whether librosa.load can decode the file
    raw_feature,        \* what librosa computes: one row per coefficient / band
    apc,                \* "call", then "returned"
    aud_ret,            \* the outcome of the call
    \* ---- validate_tflite_model ----
    model_loadable,     \* whether the runtime loads the file
    input_details,      \* interpreter.get_input_details()
    output_details,     \* interpreter.get_output_details()
    tpc,                \* "call", then "returned"
    warnings,           \* the warnings printed
    struct_ret,         \* what the call returned
    \* ---- validate_model_accuracy ----
    acc_is_audio,       \* the argument is_audio_model
    acc_rank,           \* len(input_shape)
    test_files,         \* the files the globs found, in the order of the list
    acc_pc,             \* position inside the function
    acc_i,              \* index of the file the loop is at
    predictions,
    acc_outcomes,       \* how the body of the loop ended for each file so far
    acc_fed,            \* the files whose input reached interpreter.invoke()
    acc_ret,            \* what the call returned
    \* ---- check_models.main ----
    tf_installed,       \* whether "import tensorflow" succeeds
    model_state,        \* per listed model: the condition of its file
    cm_pc,              \* position inside main
    cm_i,               \* index of the model the loop is at
    cm_results,         \* the dict results
    cm_loads,           \* the paths tf.lite.Interpreter was asked to load
    cm_exit             \* the exit status main returned

reportVars == <<output_path, psutil_available, rpc, tests, rlog, memSnapshot,
                rexc, rfile, rret, interpreter, report_uses>>
batchVars == <<tflite_files, vidx, vpc, model_info, inference_result, perf_result,
               accuracy_result, validation_results, vlog, vexc, vfile, vsummary,
               interpreters_opened, batch_uses, is_audio, modality_passed>>
variationVars == <<input_dtype, input_shape, patterns, pat_inputs, pat_outputs, pat_idx, results,
                   pat_calls, pat_raised, pat_ret, pat_exc>>
benchVars == <<bfun, bench_is_audio, bench_rank, bench_dtype, warmup_iterations, num_iterations, bcall, bpc, bi, test_input,
               tensors_built, times, invocations, bret, bexc, bprinted>>
stabVars == <<num_tests, spc, si, stab_input, stab_tensors, out_buffer, outputs,
              produced, stab_calls, sret, sexc>>
compVars == <<variationVars, benchVars, stabVars>>
infVars == <<is_audio_model, input_rank, inf_num_tests, model_fn, ipc, ii,
             inf_tensors, inf_inputs, inf_results, iret>>
memVars == <<mpc, mi, baseline_memory, memory_usage, mem_events, mret, mexc>>
statVars == <<lat_times, lat_pc, lat_stats>>
audVars == <<target_shape, audio_loadable, raw_feature, apc, aud_ret>>
structVars == <<model_loadable, input_details, output_details, tpc, warnings,
                struct_ret>>
accVars == <<acc_is_audio, acc_rank, test_files, acc_pc, acc_i, predictions,
             acc_outcomes, acc_fed, acc_ret>>
cmVars == <<tf_installed, model_state, cm_pc, cm_i, cm_results, cm_loads, cm_exit>>
extVars == <<audVars, structVars, accVars, cmVars>>
auxVars == <<infVars, memVars, statVars, extVars>>
vars == <<prog, reportVars, batchVars, compVars, auxVars>>

(***************************************************************************)
(* Values shared by both programs.                                         *)
(***************************************************************************)
\* Python's None
None == [kind |-> "None"]
\* the outcome of a call: it returns a value or raises an exception
Return(v) == [exc |-> "none", ret |-> v]
Raise(e) == [exc |-> e, ret |-> None]
Payloads == 1..NumPayloads

RECURSIVE SeqToSet(_)
SeqToSet(s) == IF s = <<>> THEN {} ELSE {Head(s)} \cup SeqToSet(Tail(s))

(***************************************************************************)
(* ModelTester.generate_test_report                                        *)
(***************************************************************************)
\* keys of test_patterns, in dict insertion order
test_patterns == <<"zeros", "ones", "random_uniform", "random_normal", "max_values">>
PatternNames == SeqToSet(test_patterns)

\* an entry of report['tests']
Absent == [st |-> "absent", msg |-> "", val |-> 0]
AbsentVariations == [st |-> "absent", msg |-> "", val |-> {}]
OkResult(v) == [st |-> "ok", msg |-> "", val |-> v]
ErrorResult(m) == [st |-> "error", msg |-> m, val |-> 0]

\* test_inference_speed as seen by its caller: the first failing invoke raises
\* out of the method, otherwise the statistics are returned
SpeedCheck(invokeFails, v) ==
    IF invokeFails THEN Raise("InferenceError") ELSE Return(OkResult(v))

\* test_input_variations as seen by its caller: every pattern is tried inside
\* its own try/except, so the method always returns; val is the set of
\* patterns recorded with success = False
VariationsCheck(failing) == Return(OkResult(failing))

\* test_memory_usage as seen by its caller: "import psutil" is its first
\* statement, the inference loop follows
MemoryCheck(avail, invokeFails, v) ==
    IF ~avail THEN Raise("ImportError")
    ELSE IF invokeFails THEN Raise("InferenceError")
    ELSE Return(OkResult(v))

\* test_numerical_stability as seen by its caller
StabilityCheck(invokeFails, v) ==
    IF invokeFails THEN Raise("InferenceError") ELSE Return(OkResult(v))

\* a mutant of GuardMemory: no except clause around the memory check
GuardMemoryNoExcept(o) == o
\* a mutant of GuardMemory: "except ImportError: pass"
GuardMemoryPass(o) ==
    IF o.exc = "ImportError" THEN Return(Absent) ELSE o
\* the try/except ImportError around the memory check
GuardMemory(o) ==
    IF o.exc = "ImportError" THEN Return(ErrorResult("psutil not available")) ELSE o

\* a check drove a handle through set_tensor / invoke / get_tensor
Use(item, check, handle) == [item |-> item, check |-> check, handle |-> handle]

\* report = {'model_info': ..., 'timestamp': ..., 'tests': tests}
Report(t) == [kind |-> "report", model_info |-> "model_info",
              timestamp |-> "timestamp", tests |-> t]

ReportInit ==
    /\ output_path \in BOOLEAN
    /\ psutil_available \in BOOLEAN
    /\ rpc = "speed"
    /\ interpreter = 1
    /\ report_uses = <<>>
    /\ tests = [speed |-> Absent, input_variations |-> AbsentVariations,
                memory |-> Absent, stability |-> Absent]
    /\ rlog = <<>>
    /\ memSnapshot = tests
    /\ rexc = "none"
    /\ rfile = None
    /\ rret = None

ReportIdle ==
    /\ output_path = FALSE
    /\ psutil_available = FALSE
    /\ rpc = "idle"
    /\ interpreter = 0
    /\ report_uses = <<>>
    /\ tests = [speed |-> Absent, input_variations |-> AbsentVariations,
                memory |-> Absent, stability |-> Absent]
    /\ rlog = <<>>
    /\ memSnapshot = tests
    /\ rexc = "none"
    /\ rfile = None
    /\ rret = None

\* an exception leaves generate_test_report: nothing is saved or returned
ReportRaises(e) ==
    /\ rexc' = e
    /\ rpc' = "raised"
    /\ UNCHANGED <<tests, rfile, rret>>

\* report['tests']['speed'] = self.test_inference_speed()
GenSpeed ==
    /\ prog = "model_tester"
    /\ rpc = "speed"
    /\ rlog' = Append(rlog, "speed")
    /\ report_uses' = Append(report_uses, Use(0, "speed", interpreter))
    /\ \E invokeFails \in BOOLEAN, v \in Payloads :
         LET o == SpeedCheck(invokeFails, v) IN
         IF o.exc # "none" THEN ReportRaises(o.exc)
         ELSE /\ tests' = [tests EXCEPT !.speed = o.ret]
              /\ rpc' = "input_variations"
              /\ UNCHANGED <<rexc, rfile, rret>>
    /\ UNCHANGED <<output_path, psutil_available, memSnapshot, interpreter, batchVars,
                   prog, compVars, auxVars>>

\* report['tests']['input_variations'] = self.test_input_variations()
GenVariations ==
    /\ prog = "model_tester"
    /\ rpc = "input_variations"
    /\ rlog' = Append(rlog, "input_variations")
    /\ report_uses' = Append(report_uses, Use(0, "input_variations", interpreter))
    /\ \E failing \in SUBSET PatternNames :
         LET o == VariationsCheck(failing) IN
         /\ tests' = [tests EXCEPT !.input_variations = o.ret]
         /\ rpc' = "memory"
         /\ UNCHANGED <<rexc, rfile, rret>>
    /\ UNCHANGED <<output_path, psutil_available, memSnapshot, interpreter, batchVars,
                   prog, compVars, auxVars>>

\* try: report['tests']['memory'] = self.test_memory_usage()
\* except ImportError: report['tests']['memory'] = {'error': 'psutil not available'}
GenMemory ==
    /\ prog = "model_tester"
    /\ rpc = "memory"
    /\ rlog' = Append(rlog, "memory")
    /\ report_uses' = IF psutil_available
                      THEN Append(report_uses, Use(0, "memory", interpreter))
                      ELSE report_uses
    /\ memSnapshot' = tests
    /\ \E invokeFails \in BOOLEAN, v \in Payloads :
         LET o == GuardMemory(MemoryCheck(psutil_available, invokeFails, v)) IN
         IF o.exc # "none" THEN ReportRaises(o.exc)
         ELSE /\ tests' = [tests EXCEPT !.memory = o.ret]
              /\ rpc' = "stability"
              /\ UNCHANGED <<rexc, rfile, rret>>
    /\ UNCHANGED <<output_path, psutil_available, interpreter, batchVars, prog,
                   compVars, auxVars>>

\* report['tests']['stability'] = self.test_numerical_stability()
GenStability ==
    /\ prog = "model_tester"
    /\ rpc = "stability"
    /\ rlog' = Append(rlog, "stability")
    /\ report_uses' = Append(report_uses, Use(0, "stability", interpreter))
    /\ \E invokeFails \in BOOLEAN, v \in Payloads :
         LET o == StabilityCheck(invokeFails, v) IN
         IF o.exc # "none" THEN ReportRaises(o.exc)
         ELSE /\ tests' = [tests EXCEPT !.stability = o.ret]
              /\ rpc' = "save"
              /\ UNCHANGED <<rexc, rfile, rret>>
    /\ UNCHANGED <<output_path, psutil_available, memSnapshot, interpreter, batchVars,
                   prog, compVars, auxVars>>

\* if output_path: with open(output_path, 'w') as f: json.dump(report, f)
\* return report
GenSave ==
    /\ prog = "model_tester"
    /\ rpc = "save"
    /\ \E writeOk \in BOOLEAN :
         IF output_path /\ ~writeOk
         THEN ReportRaises("IOError")
         ELSE /\ rfile' = IF output_path THEN Report(tests) ELSE rfile
              /\ rret' = Report(tests)
              /\ rpc' = "returned"
              /\ UNCHANGED <<tests, rexc>>
    /\ UNCHANGED <<output_path, psutil_available, rlog, memSnapshot, interpreter,
                   report_uses, batchVars, prog, compVars, auxVars>>

ReportNext == GenSpeed \/ GenVariations \/ GenMemory \/ GenStability \/ GenSave

(***************************************************************************)
(* model_validation.main: the loop over the model files, the report file   *)
(* and the summary.                                                        *)
(***************************************************************************)
\* file names, as sequences of characters
ModelNames ==
    { <<"f", "l", "o", "r", "a">>,
      <<"B", "i", "r", "d", "1">>,
      <<"m", "y", "A", "U", "D", "I", "O">> }

\* str.lower() on one character
LowerChar(c) ==
    CASE c = "A" -> "a" [] c = "B" -> "b" [] c = "D" -> "d" [] c = "I" -> "i"
      [] c = "O" -> "o" [] c = "U" -> "u" [] OTHER -> c
lower(s) == [i \in 1..Len(s) |-> LowerChar(s[i])]
\* needle in hay
Contains(hay, needle) ==
    \E i \in 1..(Len(hay) - Len(needle) + 1) :
        SubSeq(hay, i, i + Len(needle) - 1) = needle
IsAudioNameCaseSensitive(name) ==
    \/ Contains(name, <<"b", "i", "r", "d">>)
    \/ Contains(name, <<"a", "u", "d", "i", "o">>)
\* is_audio = "bird" in name.lower() or "audio" in name.lower()
IsAudioName(name) ==
    \/ Contains(lower(name), <<"b", "i", "r", "d">>)
    \/ Contains(lower(name), <<"a", "u", "d", "i", "o">>)

\* what the environment does to one check: nothing, or the model fails to
\* load, or an invoke fails
Errors == {"LoadError", "InferenceError"}
Causes == {"none"} \cup Errors

\* a mutant of validate_tflite_model: the except branch returns the details
\* gathered so far instead of None
validate_tflite_model_partial(err) == [kind |-> "model_info"]
\* validate_tflite_model: everything is inside try/except Exception; it only
\* loads the model
validate_tflite_model(err) ==
    IF err = "none" THEN [kind |-> "model_info"] ELSE None

\* test_model_inference: everything is inside try/except Exception
test_model_inference(err) ==
    IF err = "none" THEN [kind |-> "inference", success |-> TRUE, error |-> ""]
    ELSE [kind |-> "inference", success |-> FALSE, error |-> err]

\* benchmark_model_performance: prints the error and returns None
benchmark_model_performance(err, v) ==
    IF err = "none" THEN [kind |-> "performance", avg_time |-> v] ELSE None

\* validate_model_accuracy: None when the load fails; a file whose inference
\* fails is skipped inside the per-file try/except and the rest is returned
validate_model_accuracy(err, v) ==
    IF err = "LoadError" THEN None
    ELSE [kind |-> "predictions", n |-> v, complete |-> (err = "none")]

\* sequences of distinct file names, 1..NumModels of them
FileLists ==
    UNION { { s \in [1..n -> ModelNames] : \A i, j \in 1..n : i # j => s[i] # s[j] } :
            n \in 1..NumModels }

BatchInit ==
    /\ tflite_files \in FileLists
    /\ vidx = 1
    /\ vpc = "structure"
    /\ interpreters_opened = 0
    /\ batch_uses = <<>>
    /\ is_audio = FALSE
    /\ modality_passed = <<>>
    /\ model_info = None
    /\ inference_result = None
    /\ perf_result = None
    /\ accuracy_result = None
    /\ validation_results = <<>>
    /\ vlog = <<>>
    /\ vexc = "none"
    /\ vfile = None
    /\ vsummary = <<>>

BatchIdle ==
    /\ tflite_files = <<>>
    /\ vidx = 0
    /\ vpc = "idle"
    /\ interpreters_opened = 0
    /\ batch_uses = <<>>
    /\ is_audio = FALSE
    /\ modality_passed = <<>>
    /\ model_info = None
    /\ inference_result = None
    /\ perf_result = None
    /\ accuracy_result = None
    /\ validation_results = <<>>
    /\ vlog = <<>>
    /\ vexc = "none"
    /\ vfile = None
    /\ vsummary = <<>>

\* a mutant of model_file: the loop variable is not the file being visited
model_file_first == tflite_files[1]
\* for model_file in tflite_files
model_file == tflite_files[vidx]

\* a mutant of NewInterpreter: the interpreter opened first is kept and reused
CachedInterpreter(n) == IF n = 0 THEN 1 ELSE n
\* interpreter = tf.lite.Interpreter(model_path=model_path): a new handle
NewInterpreter(n) == n + 1
\* every check function opens the model itself, unless the load fails, and
\* drives the handle it opened
OpenAndUse(check, err) ==
    IF err = "LoadError"
    THEN UNCHANGED <<interpreters_opened, batch_uses>>
    ELSE /\ interpreters_opened' = NewInterpreter(interpreters_opened)
         /\ batch_uses' = Append(batch_uses,
                                 Use(vidx, check, NewInterpreter(interpreters_opened)))

\* a mutant of NextFile: the next file's body starts at the inference test
NextFileNoStructure ==
    /\ vidx' = vidx + 1
    /\ vpc' = IF vidx < Len(tflite_files) THEN "inference" ELSE "save"
\* "continue", or the end of the loop body: the next file, or the code after
\* the loop
NextFile ==
    /\ vidx' = vidx + 1
    /\ vpc' = IF vidx < Len(tflite_files) THEN "structure" ELSE "save"

\* the is_audio_model argument of a check of the current file
PassModality(check) ==
    modality_passed' = Append(modality_passed,
                              [item |-> vidx, check |-> check, is_audio |-> is_audio])

\* is_audio = "bird" in model_file.name.lower() or ...
\* model_info = validate_tflite_model(str(model_file))
\* if not model_info: continue
ValStructure ==
    /\ prog = "model_validation"
    /\ vpc = "structure"
    /\ is_audio' = IsAudioName(model_file)
    /\ UNCHANGED modality_passed
    /\ \E err \in {"none", "LoadError"} :
         /\ model_info' = validate_tflite_model(err)
         /\ vlog' = Append(vlog, <<vidx, "structure", err>>)
         /\ OpenAndUse("structure", err)
         /\ IF model_info' = None
            THEN NextFile
            ELSE vpc' = "inference" /\ UNCHANGED vidx
    /\ UNCHANGED <<tflite_files, inference_result, perf_result, accuracy_result,
                   validation_results, vexc, vfile, vsummary, reportVars, prog, compVars, auxVars>>

\* inference_result = test_model_inference(str(model_file), is_audio)
\* if not inference_result["success"]: continue
ValInference ==
    /\ prog = "model_validation"
    /\ vpc = "inference"
    /\ PassModality("inference")
    /\ UNCHANGED is_audio
    /\ \E err \in Causes :
         /\ inference_result' = test_model_inference(err)
         /\ vlog' = Append(vlog, <<vidx, "inference", err>>)
         /\ OpenAndUse("inference", err)
         /\ IF ~inference_result'.success
            THEN NextFile
            ELSE vpc' = "benchmark" /\ UNCHANGED vidx
    /\ UNCHANGED <<tflite_files, model_info, perf_result, accuracy_result,
                   validation_results, vexc, vfile, vsummary, reportVars, prog, compVars, auxVars>>

\* perf_result = benchmark_model_performance(str(model_file), is_audio, 50)
ValBenchmark ==
    /\ prog = "model_validation"
    /\ vpc = "benchmark"
    /\ PassModality("benchmark")
    /\ UNCHANGED is_audio
    /\ \E err \in Causes, v \in Payloads :
         /\ perf_result' = benchmark_model_performance(err, v)
         /\ vlog' = Append(vlog, <<vidx, "benchmark", err>>)
         /\ OpenAndUse("benchmark", err)
    /\ vpc' = "accuracy"
    /\ UNCHANGED <<tflite_files, vidx, model_info, inference_result, accuracy_result,
                   validation_results, vexc, vfile, vsummary, reportVars, prog, compVars, auxVars>>

\* accuracy_result = validate_model_accuracy(str(model_file), test_data_dir, is_audio)
ValAccuracy ==
    /\ prog = "model_validation"
    /\ vpc = "accuracy"
    /\ PassModality("accuracy")
    /\ UNCHANGED is_audio
    /\ \E err \in Causes, v \in Payloads :
         /\ accuracy_result' = validate_model_accuracy(err, v)
         /\ vlog' = Append(vlog, <<vidx, "accuracy", err>>)
         /\ OpenAndUse("accuracy", err)
    /\ vpc' = "store"
    /\ UNCHANGED <<tflite_files, vidx, model_info, inference_result, perf_result,
                   validation_results, vexc, vfile, vsummary, reportVars, prog, compVars, auxVars>>

\* the entry stored for the current file
Entry ==
    [model_info |-> model_info, inference |-> inference_result,
     performance |-> perf_result, accuracy |-> accuracy_result,
     is_audio_model |-> is_audio]

\* validation_results[model_file.name] = {...}
ValStore ==
    /\ prog = "model_validation"
    /\ vpc = "store"
    /\ validation_results' =
         [n \in DOMAIN validation_results \cup {model_file} |->
            IF n = model_file THEN Entry ELSE validation_results[n]]
    /\ NextFile
    /\ UNCHANGED <<is_audio, modality_passed, tflite_files, model_info, inference_result, perf_result,
                   accuracy_result, vlog, vexc, vfile, vsummary, interpreters_opened,
                   batch_uses, reportVars, prog, compVars, auxVars>>

\* with open(report_path, 'w') as f: json.dump(validation_results, f, indent=2)
ValSave ==
    /\ prog = "model_validation"
    /\ vpc = "save"
    /\ \E writeOk \in BOOLEAN :
         IF writeOk
         THEN vfile' = validation_results /\ vpc' = "summary" /\ UNCHANGED vexc
         ELSE vexc' = "IOError" /\ vpc' = "raised" /\ UNCHANGED vfile
    /\ UNCHANGED <<is_audio, modality_passed, tflite_files, vidx, model_info, inference_result, perf_result,
                   accuracy_result, validation_results, vlog, vsummary,
                   interpreters_opened, batch_uses, reportVars, prog, compVars, auxVars>>

\* the names of a mapping's keys, in the order of tflite_files
RECURSIVE KeysInOrder(_, _)
KeysInOrder(files, m) ==
    IF files = <<>> THEN <<>>
    ELSE IF Head(files) \in DOMAIN m
         THEN <<Head(files)>> \o KeysInOrder(Tail(files), m)
         ELSE KeysInOrder(Tail(files), m)

\* print("Summary:") ... for name, result in validation_results.items(): print(...)
ValSummary ==
    /\ prog = "model_validation"
    /\ vpc = "summary"
    /\ vsummary' = KeysInOrder(tflite_files, validation_results)
    /\ vpc' = "done"
    /\ UNCHANGED <<is_audio, modality_passed, tflite_files, vidx, model_info, inference_result, perf_result,
                   accuracy_result, validation_results, vlog, vexc, vfile,
                   interpreters_opened, batch_uses, reportVars, prog, compVars, auxVars>>

BatchNext ==
    ValStructure \/ ValInference \/ ValBenchmark \/ ValAccuracy \/ ValStore
        \/ ValSave \/ ValSummary

(***************************************************************************)
(* ModelTester.test_input_variations, one pattern of the loop per step.    *)
(***************************************************************************)
Dtypes == {"float32", "uint8"}
InputShapes == {<<1, n>> : n \in 1..MaxElements} \cup {<<1, 1, 1, 1>>}
\* str(e) of the errors the runtime may raise
ErrorMessages == {"invoke failed", "tensor type mismatch"}

\* A tensor is its shape, its dtype and its elements in row-major order.  An
\* element is counted in halves, so that 0.5 is a value: Value(1) is 1.
Value(n) == 2 * n
RECURSIVE Size(_)
Size(shape) == IF shape = <<>> THEN 1 ELSE Head(shape) * Size(Tail(shape))
Tensor(shape, dtype, data) == [shape |-> shape, dtype |-> dtype, data |-> data]
\* np.full(shape, n, dtype); np.zeros and np.ones are np.full of 0 and 1
Full(shape, n, dtype) ==
    Tensor(shape, dtype, [k \in 1..Size(shape) |-> Value(n)])
\* x.astype(dtype): to uint8 the fraction is dropped, float32 holds the halves
AsType(dtype, h) == IF dtype = "uint8" THEN Value(h \div 2) ELSE h
\* np.random.rand: values of [0, 1); np.random.randint(0, 256): of 0..255
RandomUniform(dtype) ==
    IF dtype = "uint8" THEN {Value(0), Value(255)} ELSE {0, 1}
\* np.clip(np.random.randn, 0, 1).astype(dtype): values of [0, 1]
RandomNormal(dtype) == {AsType(dtype, h) : h \in {1, Value(1)}}
MaxValueAlwaysOne(dtype) == 1
\* the element of 'max_values': 255 for uint8, else 1
MaxValue(dtype) == IF dtype = "uint8" THEN 255 ELSE 1
\* the dict test_patterns, for the random draws u and n
BuildPatterns(shape, dtype, u, n) ==
    [p \in PatternNames |->
        CASE p = "zeros" -> Full(shape, 0, dtype)
          [] p = "ones" -> Full(shape, 1, dtype)
          [] p = "random_uniform" -> Tensor(shape, dtype, u)
          [] p = "random_normal" -> Tensor(shape, dtype, n)
          [] p = "max_values" -> Full(shape, MaxValue(dtype), dtype)]

\* the output tensors the model may give (scores in arbitrary units)
OutputTensors ==
    { Tensor(<<2>>, "float32", <<3, 7>>), Tensor(<<1, 2>>, "float32", <<3, 7>>) }
\* what set_tensor / invoke / get_tensor do for one pattern
InvokeResults == { Return(t) : t \in OutputTensors }
                     \cup { Raise(m) : m \in ErrorMessages }

\* a Python int or float, as opposed to None
Number(v) == [kind |-> "number", value |-> v]
\* output[0]: the first row of an output of rank 2 or more
FirstRow(t) == SubSeq(t.data, 1, Size(Tail(t.shape)))
\* np.argmax: the 0-based index of the first maximum
ArgMax(xs) == (CHOOSE k \in 1..Len(xs) :
                 /\ \A j \in 1..Len(xs) : xs[j] <= xs[k]
                 /\ \A j \in 1..(k - 1) : xs[j] < xs[k]) - 1
\* np.max / np.min of the elements
np_max(xs) == CHOOSE v \in SeqToSet(xs) : \A w \in SeqToSet(xs) : w <= v
np_min(xs) == CHOOSE v \in SeqToSet(xs) : \A w \in SeqToSet(xs) : v <= w
HasBatchRowAlways(t) == TRUE
\* len(output.shape) > 1
HasBatchRow(t) == Len(t.shape) > 1
\* the entry of a pattern whose inference succeeded; output_mean and
\* output_std (float arithmetic on the output) are left out
SuccessEntry(output) ==
    [success |-> TRUE, error |-> "",
     output_shape |-> output.shape,
     output_min |-> np_min(output.data),
     output_max |-> np_max(output.data),
     top_class |-> IF HasBatchRow(output)
                   THEN Number(ArgMax(FirstRow(output))) ELSE None,
     top_confidence |-> IF HasBatchRow(output)
                        THEN Number(np_max(FirstRow(output))) ELSE None]
FailureEntry(m) == [success |-> FALSE, error |-> m]

\* a mutant of RunPattern: the loop body without its try/except
RunPatternNoExcept(o) ==
    IF o.exc # "none" THEN Raise(o.exc) ELSE Return(SuccessEntry(o.ret))
\* the body of the loop over test_patterns: try ... except Exception as e
RunPattern(o) ==
    IF o.exc # "none" THEN Return(FailureEntry(o.exc))
    ELSE Return(SuccessEntry(o.ret))

NumPatterns == Len(test_patterns)

VariationsInit ==
    /\ input_dtype \in Dtypes
    /\ input_shape \in InputShapes
    /\ patterns = <<>>
    /\ pat_inputs = <<>>
    /\ pat_outputs = <<>>
    /\ pat_idx = 0
    /\ results = <<>>
    /\ pat_calls = <<>>
    /\ pat_raised = <<>>
    /\ pat_ret = <<>>
    /\ pat_exc = "none"

VariationsIdle ==
    /\ input_dtype = "float32"
    /\ input_shape = <<>>
    /\ patterns = <<>>
    /\ pat_inputs = <<>>
    /\ pat_outputs = <<>>
    /\ pat_idx = 0
    /\ results = <<>>
    /\ pat_calls = <<>>
    /\ pat_raised = <<>>
    /\ pat_ret = <<>>
    /\ pat_exc = "none"

\* test_patterns = {...}: the five tensors are built before the loop
VarBuild ==
    /\ prog = "test_input_variations"
    /\ pat_idx = 0
    /\ \E u \in [1..Size(input_shape) -> RandomUniform(input_dtype)],
          n \in [1..Size(input_shape) -> RandomNormal(input_dtype)] :
         patterns' = BuildPatterns(input_shape, input_dtype, u, n)
    /\ pat_idx' = 1
    /\ UNCHANGED <<input_dtype, input_shape, pat_inputs, pat_outputs, results,
                   pat_calls, pat_raised, pat_ret, pat_exc>>

\* for pattern_name, test_input in test_patterns.items(): try: ... except: ...
VarPattern ==
    /\ prog = "test_input_variations"
    /\ pat_idx \in 1..NumPatterns
    /\ pat_exc = "none"
    /\ LET pattern_name == test_patterns[pat_idx] IN
       \E o \in InvokeResults :
         LET r == RunPattern(o) IN
         /\ pat_calls' = Append(pat_calls, pattern_name)
         /\ pat_inputs' = Append(pat_inputs, patterns[pattern_name])
         /\ pat_outputs' = (pattern_name :> o.ret) @@ pat_outputs
         /\ pat_raised' = (pattern_name :> o.exc) @@ pat_raised
         /\ IF r.exc # "none"
            THEN pat_exc' = r.exc /\ UNCHANGED <<results, pat_idx>>
            ELSE /\ results' = (pattern_name :> r.ret) @@ results
                 /\ pat_idx' = pat_idx + 1
                 /\ UNCHANGED pat_exc
    /\ UNCHANGED <<input_dtype, input_shape, patterns, pat_ret>>

\* return results
VarReturn ==
    /\ prog = "test_input_variations"
    /\ pat_idx = NumPatterns + 1
    /\ pat_ret' = results
    /\ pat_idx' = NumPatterns + 2
    /\ UNCHANGED <<input_dtype, input_shape, patterns, pat_inputs, pat_outputs,
                   results, pat_calls, pat_raised, pat_exc>>

VarReturned == pat_idx = NumPatterns + 2

(***************************************************************************)
(* The two benchmarks, one inference call per step:                        *)
(* ModelTester.test_inference_speed and benchmark_model_performance.       *)
(***************************************************************************)
\* len(input_shape) of the models
InputRanks == {1, 2, 4}
\* create_sample_image_data: an array for a 4-dimensional shape, else None
create_sample_image_data(rank) == IF rank = 4 THEN "ndarray" ELSE "None"
create_sample_audio_data_any(rank) == "ndarray"
\* create_sample_audio_data: an array for 2, 3 or 4 dimensions, else None
create_sample_audio_data(rank) == IF rank \in {2, 3, 4} THEN "ndarray" ELSE "None"

Benchmarks == {"test_inference_speed", "benchmark_model_performance"}
\* input_details[0]['dtype'] of the models benchmark_model_performance is given
BenchDtypes == {"float32", "uint8", "int8"}
\* lines 315-318: the sample is converted for a uint8 or float32 input, which
\* reads .dtype / .astype of the sample (AttributeError on None); for any
\* other dtype it is passed on as it is
ConvertInput(sample, dtype) ==
    IF dtype \in {"uint8", "float32"}
    THEN IF sample = "None" THEN Raise("AttributeError") ELSE Return("ndarray")
    ELSE Return(sample)
\* the warm-up of benchmark_model_performance: for _ in range(5)
WarmUpRuns == 5
\* time.time() - start_time, in ticks of that clock: two readings of the
\* wall clock around a short inference may be the same
ElapsedTimes == 0..MaxElapsed
\* end_time - start_time of time.perf_counter(), in ticks of that clock
PerfElapsedTimes == 1..(MaxElapsed + 1)
\* the elapsed times a timed inference of benchmark f may measure
TimerElapsed(f) ==
    IF f = "test_inference_speed" THEN PerfElapsedTimes ELSE ElapsedTimes
\* 1 / np.mean(times) for total / n: a float64 division by 0.0 gives inf
Fps(total, n) ==
    IF total = 0 THEN [inf |-> TRUE, num |-> 0, den |-> 1]
    ELSE [inf |-> FALSE, num |-> n, den |-> total]

RECURSIVE SumElapsed(_)
SumElapsed(ts) == IF ts = <<>> THEN 0 ELSE Head(ts).elapsed + SumElapsed(Tail(ts))

\* the statistics over the collected times; samples is the sequence they were
\* computed over
Stats(ts) ==
    [kind |-> "stats", num_iterations |-> Len(ts), samples |-> ts,
     total |-> SumElapsed(ts),
     mean_time |-> [num |-> SumElapsed(ts), den |-> Len(ts)],
     fps |-> Fps(SumElapsed(ts), Len(ts)),
     min_time |-> CHOOSE t \in { ts[k].elapsed : k \in 1..Len(ts) } :
                    \A k \in 1..Len(ts) : t <= ts[k].elapsed,
     max_time |-> CHOOSE t \in { ts[k].elapsed : k \in 1..Len(ts) } :
                    \A k \in 1..Len(ts) : t >= ts[k].elapsed]

\* a mutant of FailureHandling: both benchmarks swallow the error
FailureHandlingSwallow(f) == "return None"
\* what a failing invoke leads to: test_inference_speed has no try/except,
\* benchmark_model_performance wraps its whole body in try/except Exception
FailureHandling(f) ==
    IF f = "benchmark_model_performance" THEN "return None" ELSE "propagate"

\* a mutant of NewTimes: the list of an earlier call is kept
KeptTimes(old) == old
\* times = []
NewTimes(old) == <<>>

BenchInit ==
    /\ bfun \in Benchmarks
    /\ IF bfun = "benchmark_model_performance"
       THEN /\ bench_is_audio \in BOOLEAN
            /\ bench_rank \in InputRanks
            /\ bench_dtype \in BenchDtypes
       ELSE /\ bench_is_audio = FALSE
            /\ bench_rank = 4
            /\ bench_dtype = "float32"
    /\ warmup_iterations \in
         IF bfun = "test_inference_speed" THEN 0..MaxWarmup ELSE {WarmUpRuns}
    /\ num_iterations \in 1..MaxIterations
    /\ bcall = 1
    /\ bpc = "build"
    /\ bi = 0
    /\ test_input = 0
    /\ tensors_built = 0
    /\ times = <<>>
    /\ invocations = <<>>
    /\ bret = None
    /\ bexc = "none"
    /\ bprinted = {}

BenchIdle ==
    /\ bfun = "none"
    /\ bench_is_audio = FALSE
    /\ bench_rank = 0
    /\ bench_dtype = "float32"
    /\ warmup_iterations = 0
    /\ num_iterations = 0
    /\ bcall = 0
    /\ bpc = "idle"
    /\ bi = 0
    /\ test_input = 0
    /\ tensors_built = 0
    /\ times = <<>>
    /\ invocations = <<>>
    /\ bret = None
    /\ bexc = "none"
    /\ bprinted = {}

\* an exception inside the benchmark
BenchFails(e) ==
    IF FailureHandling(bfun) = "propagate"
    THEN /\ bexc' = e
         /\ bpc' = "raised"
         /\ UNCHANGED <<bret, bprinted>>
    ELSE /\ bprinted' = bprinted \cup {e}
         /\ bret' = None
         /\ bpc' = "returned"
         /\ UNCHANGED bexc

\* the input benchmark_model_performance prepares (lines 308-318)
BenchInput ==
    ConvertInput(IF bench_is_audio THEN create_sample_audio_data(bench_rank)
                 ELSE create_sample_image_data(bench_rank),
                 bench_dtype)

\* the input tensor is created once, before the loops; in
\* benchmark_model_performance the interpreter is loaded first, and the
\* input may be None (test_input = 0)
BenchBuild ==
    /\ prog = "benchmark"
    /\ bpc = "build"
    /\ \E loadOk \in BOOLEAN :
         IF bfun = "benchmark_model_performance" /\ ~loadOk
         THEN BenchFails("LoadError") /\ UNCHANGED <<test_input, tensors_built>>
         ELSE IF bfun = "benchmark_model_performance" /\ BenchInput.exc # "none"
         THEN BenchFails(BenchInput.exc) /\ UNCHANGED <<test_input, tensors_built>>
         ELSE IF bfun = "benchmark_model_performance" /\ BenchInput.ret = "None"
         THEN /\ test_input' = 0
              /\ bpc' = "warmup"
              /\ UNCHANGED <<tensors_built, bret, bexc, bprinted>>
         ELSE /\ tensors_built' = tensors_built + 1
              /\ test_input' = tensors_built + 1
              /\ bpc' = "warmup"
              /\ UNCHANGED <<bret, bexc, bprinted>>
    /\ UNCHANGED <<bfun, bench_is_audio, bench_rank, bench_dtype, warmup_iterations, num_iterations, bcall, bi, times,
                   invocations>>

Invocation(phase, elapsed, ok) ==
    [call |-> bcall, phase |-> phase, tensor |-> test_input, elapsed |-> elapsed,
     ok |-> ok]

\* for _ in range(warmup_iterations): set_tensor(test_input); invoke()
BenchWarmup ==
    /\ prog = "benchmark"
    /\ bpc = "warmup"
    /\ bi < warmup_iterations
    /\ IF test_input = 0
       THEN \* set_tensor(index, None) raises before invoke is reached
            BenchFails("ValueError") /\ UNCHANGED <<bi, invocations>>
       ELSE \E ok \in BOOLEAN :
            /\ invocations' = Append(invocations, Invocation("warmup", 0, ok))
            /\ IF ok
               THEN bi' = bi + 1 /\ UNCHANGED <<bpc, bret, bexc, bprinted>>
               ELSE BenchFails("InferenceError") /\ UNCHANGED bi
    /\ UNCHANGED <<bfun, bench_is_audio, bench_rank, bench_dtype, warmup_iterations, num_iterations, bcall, test_input,
                   tensors_built, times>>

\* times = []
BenchStartTimed ==
    /\ prog = "benchmark"
    /\ bpc = "warmup"
    /\ bi = warmup_iterations
    /\ times' = NewTimes(times)
    /\ bi' = 0
    /\ bpc' = "timed"
    /\ UNCHANGED <<bfun, bench_is_audio, bench_rank, bench_dtype, warmup_iterations, num_iterations, bcall, test_input,
                   tensors_built, invocations, bret, bexc, bprinted>>

\* for _ in range(num_iterations): start; set_tensor; invoke; times.append(...)
BenchTimed ==
    /\ prog = "benchmark"
    /\ bpc = "timed"
    /\ bi < num_iterations
    /\ \E ok \in BOOLEAN, t \in TimerElapsed(bfun) :
         IF ok
         THEN /\ invocations' = Append(invocations, Invocation("timed", t, TRUE))
              /\ times' = Append(times, [call |-> bcall, elapsed |-> t])
              /\ bi' = bi + 1
              /\ UNCHANGED <<bpc, bret, bexc, bprinted>>
         ELSE /\ invocations' = Append(invocations, Invocation("timed", 0, FALSE))
              /\ BenchFails("InferenceError")
              /\ UNCHANGED <<bi, times>>
    /\ UNCHANGED <<bfun, bench_is_audio, bench_rank, bench_dtype, warmup_iterations, num_iterations, bcall, test_input,
                   tensors_built>>

\* the statistics are computed over times and returned
BenchStats ==
    /\ prog = "benchmark"
    /\ bpc = "timed"
    /\ bi = num_iterations
    /\ bret' = Stats(times)
    /\ bpc' = "returned"
    /\ UNCHANGED <<bfun, bench_is_audio, bench_rank, bench_dtype, warmup_iterations, num_iterations, bcall, bi, test_input,
                   tensors_built, times, invocations, bexc, bprinted>>

\* the caller runs the benchmark a second time; the locals of the first call
\* are gone, its times list is what a later call must not reuse
BenchAgain ==
    /\ prog = "benchmark"
    /\ bpc = "returned"
    /\ bcall = 1
    /\ bcall' = 2
    /\ bpc' = "build"
    /\ bi' = 0
    /\ test_input' = 0
    /\ bret' = None
    /\ UNCHANGED <<bfun, bench_is_audio, bench_rank, bench_dtype, warmup_iterations, num_iterations, tensors_built, times,
                   invocations, bexc, bprinted>>

(***************************************************************************)
(* ModelTester.test_numerical_stability, one inference call per step.      *)
(*                                                                         *)
(* Output elements are float32 values of the binade [0.5, 1): the integer  *)
(* k stands for k * 2^-24, with 2^23 <= k < 2^24, so that one unit is one  *)
(* ulp of the outputs.  Sums and quotients are rounded to 24 significant   *)
(* bits, ties to even, as numpy does for float32 arrays.                   *)
(***************************************************************************)
\* np.random.seed(42)
StabilitySeed == 42
\* 1 / rtol = 1 / atol of np.allclose(..., rtol=1e-7, atol=1e-7)
TolInv == 10000000
Two24 == 2^24
\* the float32 not-a-number
NaN == -1
IsNaN(x) == x = NaN
Abs(x) == IF x < 0 THEN 0 - x ELSE x

\* the output arrays the runtime may produce (shape [2])
OutputArrays ==
    { <<14397392, 14397393>>, <<14397395, 14397393>>, <<14397392, 14397397>>,
      <<14397392, 14397392>>, <<NaN, 14397393>> }

\* the spacing of the float32 values around v
RECURSIVE Ulp(_)
Ulp(v) == IF v < Two24 THEN 1 ELSE 2 * Ulp(v \div 2)
\* num / den rounded to a multiple of u, ties to the even multiple
RoundDiv(num, den, u) ==
    LET q == num \div (den * u)
        r == num % (den * u)
    IN  IF 2 * r < den * u THEN q * u
        ELSE IF 2 * r > den * u THEN (q + 1) * u
        ELSE IF q % 2 = 0 THEN q * u ELSE (q + 1) * u
\* float32 addition
Add32(a, b) ==
    IF IsNaN(a) \/ IsNaN(b) THEN NaN ELSE RoundDiv(a + b, 1, Ulp(a + b))
\* float32 division by a count
Div32(a, n) ==
    IF IsNaN(a) THEN NaN ELSE RoundDiv(a, n, Ulp(a \div n))
\* umr_sum along axis 0: the rows are added one after the other
RECURSIVE Sum32(_)
Sum32(xs) ==
    IF Len(xs) = 1 THEN xs[1]
    ELSE Add32(Sum32(SubSeq(xs, 1, Len(xs) - 1)), xs[Len(xs)])
\* arrmean = umr_sum(arr, axis) / n
Mean32(xs) == Div32(Sum32(xs), Len(xs))
\* sum of (x - arrmean)^2; the differences and squares are small integers
\* and exact
RECURSIVE SumSqDev(_, _)
SumSqDev(xs, m) ==
    IF xs = <<>> THEN 0
    ELSE LET rest == SumSqDev(Tail(xs), m) IN
         IF IsNaN(Head(xs)) \/ IsNaN(m) \/ IsNaN(rest) THEN NaN
         ELSE (Head(xs) - m) * (Head(xs) - m) + rest
\* element e of every output
Column(outs, e) == [k \in 1..Len(outs) |-> outs[k][e]]
\* np.var(outputs, axis=0), times the number of runs (the final division by
\* the count keeps zero, sign and order), in ulp^2
output_variance(outs) ==
    [e \in 1..Len(outs[1]) |->
        SumSqDev(Column(outs, e), Mean32(Column(outs, e)))]
\* np.max: NaN if any element is NaN
MaxOf(v) ==
    IF \E e \in DOMAIN v : IsNaN(v[e]) THEN NaN
    ELSE CHOOSE x \in { v[e] : e \in DOMAIN v } : \A e \in DOMAIN v : x >= v[e]
RECURSIVE SumOf(_)
SumOf(v) == IF v = <<>> THEN 0 ELSE Head(v) + SumOf(Tail(v))
\* np.mean, times the number of elements: NaN if any element is NaN
MeanOf(v) ==
    IF \E e \in DOMAIN v : IsNaN(v[e]) THEN NaN ELSE SumOf(v)

\* a mutant of IsClose: the relative term is dropped
IsCloseAbsOnly(a, b) ==
    ~IsNaN(a) /\ ~IsNaN(b) /\ TolInv * Abs(a - b) <= Two24
\* np.isclose(a, b, rtol, atol): |a - b| <= atol + rtol * |b|, never for NaN
IsClose(a, b) ==
    ~IsNaN(a) /\ ~IsNaN(b) /\ TolInv * Abs(a - b) <= Two24 + Abs(b)
\* np.allclose(first, rest): first is broadcast against every row of rest
AllClose(first, rest) ==
    \A k \in 1..Len(rest) : \A e \in 1..Len(first) : IsClose(first[e], rest[k][e])

\* is_deterministic = np.allclose(outputs[0], outputs[1:], rtol=1e-7, atol=1e-7)
IsDeterministic(outs) == AllClose(outs[1], Tail(outs))

\* the returned dict; analysed is the array the figures were computed from
StabilityResult(n, outs) ==
    [kind |-> "stability", num_tests |-> n, analysed |-> outs,
     is_deterministic |-> IsDeterministic(outs),
     max_variance |-> MaxOf(output_variance(outs)),
     mean_variance |-> MeanOf(output_variance(outs))]

\* a mutant of Collect: the output is appended without .copy(), so the list
\* holds the runtime's own buffer
CollectNoCopy(buf) == [ref |-> TRUE, val |-> buf]
\* outputs.append(output.copy())
Collect(buf) == [ref |-> FALSE, val |-> buf]
\* the array an entry of outputs holds now
Deref(e) == IF e.ref THEN out_buffer ELSE e.val
Collected == [k \in 1..Len(outputs) |-> Deref(outputs[k])]

NoTensor == [seed |-> 0, id |-> 0]

StabInit ==
    /\ num_tests \in 1..MaxNumTests
    /\ spc = "seed"
    /\ si = 0
    /\ stab_input = NoTensor
    /\ stab_tensors = 0
    /\ out_buffer = <<>>
    /\ outputs = <<>>
    /\ produced = <<>>
    /\ stab_calls = <<>>
    /\ sret = None
    /\ sexc = "none"

StabIdle ==
    /\ num_tests = 0
    /\ spc = "idle"
    /\ si = 0
    /\ stab_input = NoTensor
    /\ stab_tensors = 0
    /\ out_buffer = <<>>
    /\ outputs = <<>>
    /\ produced = <<>>
    /\ stab_calls = <<>>
    /\ sret = None
    /\ sexc = "none"

\* np.random.seed(42); test_input = np.random.rand(...) / randint(...)
StabSeed ==
    /\ prog = "test_numerical_stability"
    /\ spc = "seed"
    /\ stab_tensors' = stab_tensors + 1
    /\ stab_input' = [seed |-> StabilitySeed, id |-> stab_tensors + 1]
    /\ spc' = "loop"
    /\ UNCHANGED <<num_tests, si, out_buffer, outputs, produced, stab_calls, sret,
                   sexc>>

\* for _ in range(num_tests): set_tensor; invoke; get_tensor; append a copy
StabInfer ==
    /\ prog = "test_numerical_stability"
    /\ spc = "loop"
    /\ si < num_tests
    /\ stab_calls' = Append(stab_calls, stab_input)
    /\ \/ \E o \in OutputArrays :
            /\ out_buffer' = o
            /\ produced' = Append(produced, o)
            /\ outputs' = Append(outputs, Collect(o))
            /\ si' = si + 1
            /\ UNCHANGED <<spc, sexc>>
       \/ /\ sexc' = "InferenceError"
          /\ spc' = "raised"
          /\ UNCHANGED <<out_buffer, produced, outputs, si>>
    /\ UNCHANGED <<num_tests, stab_input, stab_tensors, sret>>

\* outputs = np.array(outputs); the variances and is_deterministic; return
StabAnalyze ==
    /\ prog = "test_numerical_stability"
    /\ spc = "loop"
    /\ si = num_tests
    /\ sret' = StabilityResult(num_tests, Collected)
    /\ spc' = "returned"
    /\ UNCHANGED <<num_tests, si, stab_input, stab_tensors, out_buffer, outputs,
                   produced, stab_calls, sexc>>

(***************************************************************************)
(* test_model_inference (model_validation), one loop iteration per step.   *)
(* The model is a pure function of the content of its input tensor.        *)
(***************************************************************************)
InputContents == 1..NumInputs
\* the outputs (row 0, float32, in units of 2^-24) a model may give
InferenceOutputs ==
    { <<14397392, 14397393>>, <<14397394, 14397393>>, <<14397492, 14397393>> }


InferenceFailure(msg) ==
    [kind |-> "inference", success |-> FALSE, error |-> msg,
     is_deterministic |-> FALSE]
\* np.std(column) < 1e-6, as variance * n < 1e-12 * 2^48 * n in units of 2^-48
StdBelowThreshold(xs) ==
    LET v == SumSqDev(xs, Mean32(xs)) IN
    ~IsNaN(v) /\ v * 1000 < Len(xs) * 281475
\* output_std = np.std([r[0] for r in results], axis=0)
\* is_deterministic = np.all(output_std < 1e-6)
InferenceResult(res) ==
    [kind |-> "inference", success |-> TRUE, error |-> "",
     is_deterministic |->
        \A e \in 1..Len(res[1]) : StdBelowThreshold(Column(res, e))]

InfInit ==
    /\ is_audio_model \in BOOLEAN
    /\ input_rank \in InputRanks
    /\ inf_num_tests \in 0..MaxInferenceTests
    /\ model_fn \in [InputContents -> InferenceOutputs]
    /\ ipc = "load"
    /\ ii = 0
    /\ inf_tensors = 0
    /\ inf_inputs = <<>>
    /\ inf_results = <<>>
    /\ iret = None

InfIdle ==
    /\ is_audio_model = FALSE
    /\ input_rank = 0
    /\ inf_num_tests = 0
    /\ model_fn = <<>>
    /\ ipc = "idle"
    /\ ii = 0
    /\ inf_tensors = 0
    /\ inf_inputs = <<>>
    /\ inf_results = <<>>
    /\ iret = None

\* except Exception as e: return {"success": False, "error": str(e)}
InfFails(msg) ==
    /\ iret' = InferenceFailure(msg)
    /\ ipc' = "returned"

\* interpreter = tf.lite.Interpreter(model_path); allocate_tensors()
InfLoad ==
    /\ prog = "test_model_inference"
    /\ ipc = "load"
    /\ \E loadOk \in BOOLEAN :
         IF loadOk THEN ipc' = "loop" /\ UNCHANGED iret
         ELSE InfFails("LoadError")
    /\ UNCHANGED <<is_audio_model, input_rank, inf_num_tests, model_fn, ii,
                   inf_tensors, inf_inputs, inf_results>>

\* the body of "for i in range(num_tests)": a new sample input is created,
\* fed to the model, and a copy of the output is collected
InfIteration ==
    /\ prog = "test_model_inference"
    /\ ipc = "loop"
    /\ ii < inf_num_tests
    /\ LET input_data == IF is_audio_model
                          THEN create_sample_audio_data(input_rank)
                          ELSE create_sample_image_data(input_rank)
       IN
       IF input_data = "None"
       THEN /\ InfFails("Failed to create input data")
            /\ UNCHANGED <<ii, inf_tensors, inf_inputs, inf_results>>
       ELSE \E content \in InputContents, ok \in BOOLEAN :
              /\ inf_tensors' = inf_tensors + 1
              /\ inf_inputs' = Append(inf_inputs,
                                      [id |-> inf_tensors + 1, content |-> content])
              /\ IF ok
                 THEN /\ inf_results' = Append(inf_results, model_fn[content])
                      /\ ii' = ii + 1
                      /\ UNCHANGED <<ipc, iret>>
                 ELSE /\ InfFails("InferenceError")
                      /\ UNCHANGED <<ii, inf_results>>
    /\ UNCHANGED <<is_audio_model, input_rank, inf_num_tests, model_fn>>

\* after the loop: the average time, results[0] and the consistency check
InfAnalyze ==
    /\ prog = "test_model_inference"
    /\ ipc = "loop"
    /\ ii = inf_num_tests
    /\ IF inf_results = <<>>
       THEN InfFails("IndexError")
       ELSE iret' = InferenceResult(inf_results) /\ ipc' = "returned"
    /\ UNCHANGED <<is_audio_model, input_rank, inf_num_tests, model_fn, ii,
                   inf_tensors, inf_inputs, inf_results>>

(***************************************************************************)
(* ModelTester.test_memory_usage, one inference of the loop per step.      *)
(***************************************************************************)
\* for i in range(50)
TotalInferences == 50
\* if i % 10 == 0
SampleEvery == 10
\* process.memory_info().rss / 1024 / 1024
Readings == 1..NumReadings

\* a mutant of IsSampleIteration: the sample is taken when ten inferences are
\* done, (i + 1) % 10 == 0
IsSampleIterationOneBased(i) == (i + 1) % SampleEvery = 0
\* if i % 10 == 0
IsSampleIteration(i) == i % SampleEvery = 0

\* max(memory_usage)
RECURSIVE max(_)
max(xs) ==
    IF Len(xs) = 1 THEN xs[1]
    ELSE LET m == max(Tail(xs)) IN IF xs[1] >= m THEN xs[1] ELSE m

\* the returned dict
MemoryResult(baseline, usage) ==
    [kind |-> "memory", baseline_memory_mb |-> baseline,
     peak_memory_mb |-> max(usage),
     memory_increase_mb |-> max(usage) - baseline,
     memory_samples |-> usage]

MemInit ==
    /\ mpc = "baseline"
    /\ mi = 0
    /\ baseline_memory = 0
    /\ memory_usage = <<>>
    /\ mem_events = <<>>
    /\ mret = None
    /\ mexc = "none"

MemIdle ==
    /\ mpc = "idle"
    /\ mi = 0
    /\ baseline_memory = 0
    /\ memory_usage = <<>>
    /\ mem_events = <<>>
    /\ mret = None
    /\ mexc = "none"

\* import psutil; baseline_memory = process.memory_info().rss / 1024 / 1024;
\* the test input is created
MemBaseline ==
    /\ prog = "test_memory_usage"
    /\ mpc = "baseline"
    /\ \E importOk \in BOOLEAN, r \in Readings :
         IF importOk
         THEN /\ baseline_memory' = r
              /\ mem_events' = Append(mem_events, [ev |-> "baseline", i |-> -1, mb |-> r])
              /\ mpc' = "loop"
              /\ UNCHANGED mexc
         ELSE /\ mexc' = "ImportError"
              /\ mpc' = "raised"
              /\ UNCHANGED <<baseline_memory, mem_events>>
    /\ UNCHANGED <<mi, memory_usage, mret>>

\* the body of "for i in range(50)": set_tensor; invoke; every tenth
\* iteration the memory is read and appended
MemInfer ==
    /\ prog = "test_memory_usage"
    /\ mpc = "loop"
    /\ mi < TotalInferences
    /\ \E ok \in BOOLEAN, r \in Readings :
         LET infer == [ev |-> "infer", i |-> mi, mb |-> 0] IN
         IF ~ok
         THEN /\ mexc' = "InferenceError"
              /\ mpc' = "raised"
              /\ mem_events' = Append(mem_events, infer)
              /\ UNCHANGED <<mi, memory_usage>>
         ELSE /\ mi' = mi + 1
              /\ IF IsSampleIteration(mi)
                 THEN /\ memory_usage' = Append(memory_usage, r)
                      /\ mem_events' = mem_events \o
                            <<infer, [ev |-> "sample", i |-> mi, mb |-> r]>>
                 ELSE /\ UNCHANGED memory_usage
                      /\ mem_events' = Append(mem_events, infer)
              /\ UNCHANGED <<mpc, mexc>>
    /\ UNCHANGED <<baseline_memory, mret>>

\* return {'baseline_memory_mb': ..., 'peak_memory_mb': max(memory_usage), ...}
MemReturn ==
    /\ prog = "test_memory_usage"
    /\ mpc = "loop"
    /\ mi = TotalInferences
    /\ mret' = MemoryResult(baseline_memory, memory_usage)
    /\ mpc' = "returned"
    /\ UNCHANGED <<mi, baseline_memory, memory_usage, mem_events, mexc>>

(***************************************************************************)
(* The latency statistics of test_inference_speed, in float64.             *)
(*                                                                         *)
(* A timing sample is a double close to 0.1 s: the integer j stands for    *)
(* (M0 + j) * 2^-56, where M0 = 7205759403792794 is the significand of the *)
(* double 0.1.  The sum of k samples is k * M0 + b for a small b; it is    *)
(* rounded to the spacing of the doubles at k * 0.1, to the nearest, ties  *)
(* to even, which only needs M0 mod 16 = 10.  Milliseconds are counted in  *)
(* units of 2^-46 ms above 100 ms.                                         *)
(***************************************************************************)
Offsets == 0..MaxOffset

\* the spacing of the doubles around k * 0.1, in units of 2^-56 (k <= 9)
Spacing(k) == IF k = 1 THEN 1 ELSE IF k = 2 THEN 2 ELSE IF k <= 4 THEN 4 ELSE 8
\* k * M0 + b rounded to a double: the rounded b
Round64(k, b) ==
    LET u == Spacing(k)
        low == (10 * k + b) % (2 * u)
        r == low % u
    IN  IF 2 * r < u THEN b - r
        ELSE IF 2 * r > u THEN b - r + u
        ELSE IF low - r = u THEN b - r + u ELSE b - r
\* np.add.reduce over fewer than 8 elements: one after the other
RECURSIVE Sum64(_)
Sum64(js) ==
    IF Len(js) = 1 THEN js[1]
    ELSE Round64(Len(js), Sum64(SubSeq(js, 1, Len(js) - 1)) + js[Len(js)])
\* np.mean(times): the sum divided by the count
Mean64(js) == RoundDiv(Sum64(js), Len(js), 1)
\* x * 1000 for a double x close to 0.1: 1000 * M0 = 100 * 2^56 + 400, and the
\* doubles around 100 are 1024 units apart
TimesThousand(j) == RoundDiv(400 + 1000 * j, 1024, 1)

\* np.sort
RECURSIVE Insert(_, _)
Insert(x, srt) ==
    IF srt = <<>> THEN <<x>>
    ELSE IF x <= Head(srt) THEN <<x>> \o srt
    ELSE <<Head(srt)>> \o Insert(x, Tail(srt))
RECURSIVE Sorted(_)
Sorted(js) == IF js = <<>> THEN <<>> ELSE Insert(Head(js), Sorted(Tail(js)))

\* np.median(times): the middle element, or the mean of the two middle ones
Median64(js) ==
    LET srt == Sorted(js)
        n == Len(js)
    IN  IF n % 2 = 1 THEN srt[(n + 1) \div 2]
        ELSE Mean64(<<srt[n \div 2], srt[n \div 2 + 1]>>)
\* np.percentile(times, q): linear interpolation between the two elements
\* around the virtual index (n - 1) * q / 100
Percentile64(js, q) ==
    LET srt == Sorted(js)
        n == Len(js)
        lo == ((n - 1) * q) \div 100 + 1
        f == ((n - 1) * q) % 100
        hi == IF lo < n THEN lo + 1 ELSE n
    IN  RoundDiv(srt[lo] * (100 - f) + srt[hi] * f, 100, 1)

\* the returned dict of test_inference_speed (std_time_ms and fps left out)
LatencyStats(js) ==
    [kind |-> "latency", num_iterations |-> Len(js),
     mean_time_ms |-> TimesThousand(Mean64(js)),
     min_time_ms |-> TimesThousand(Sorted(js)[1]),
     max_time_ms |-> TimesThousand(Sorted(js)[Len(js)]),
     median_time_ms |-> TimesThousand(Median64(js)),
     percentile_95_ms |-> TimesThousand(Percentile64(js, 95)),
     percentile_99_ms |-> TimesThousand(Percentile64(js, 99))]

StatInit ==
    /\ lat_times = <<>>
    /\ lat_pc = "collect"
    /\ lat_stats = None

StatIdle ==
    /\ lat_times = <<>>
    /\ lat_pc = "idle"
    /\ lat_stats = None

\* times.append(end_time - start_time)
StatMeasure ==
    /\ prog = "latency_statistics"
    /\ lat_pc = "collect"
    /\ Len(lat_times) < MaxSamples
    /\ \E j \in Offsets : lat_times' = Append(lat_times, j)
    /\ UNCHANGED <<lat_pc, lat_stats>>

\* times = np.array(times); return {...}
StatCompute ==
    /\ prog = "latency_statistics"
    /\ lat_pc = "collect"
    /\ lat_times # <<>>
    /\ lat_stats' = LatencyStats(lat_times)
    /\ lat_pc' = "done"
    /\ UNCHANGED lat_times

(***************************************************************************)
(* preprocess_audio_for_model.  A tensor is a nested tuple; the raw feature *)
(* librosa computes has one row per coefficient or mel band and one column *)
(* per frame of the audio.                                                 *)
(***************************************************************************)
Levels == 1..NumLevels
\* the matrices with the given number of rows and columns
Matrices(rows, cols) == [1..rows -> [1..cols -> Levels]]
TargetShapes ==
    {<<1>>}
    \cup {<<1, n>> : n \in 1..MaxBins}
    \cup {<<1, t, f>> : t \in 1..MaxSteps, f \in 1..MaxBins}
    \cup {<<1, t, f, 1>> : t \in 1..MaxSteps, f \in 1..MaxBins}
\* n_mfcc=target_shape[1] / n_mels=target_shape[2]: the rows librosa returns
FeatureRows(shape) ==
    IF Len(shape) = 2 THEN shape[2] ELSE IF Len(shape) = 3 THEN shape[3] ELSE 0

\* mel_spec[:, :n]
TruncateTime(m, n) == [f \in 1..Len(m) |-> SubSeq(m[f], 1, n)]
PadTimeFront(m, w) == [f \in 1..Len(m) |-> [k \in 1..w |-> 0] \o m[f]]
\* np.pad(mel_spec, ((0, 0), (0, w)), mode='constant')
PadTime(m, w) == [f \in 1..Len(m) |-> m[f] \o [k \in 1..w |-> 0]]
NoTranspose(m) == m
\* mel_spec.T
Transpose(m) == [t \in 1..Len(m[1]) |-> [f \in 1..Len(m) |-> m[f][t]]]
\* np.mean(mfccs, axis=1), rounded down to the grid of the levels
MeanAxis1(m) == [f \in 1..Len(m) |-> SumOf(m[f]) \div Len(m[f])]
\* np.expand_dims(x, axis=0)
expand_dims(x) == <<x>>
\* features.astype(np.float32)
AsFloat32(x) == [dtype |-> "float32", data |-> x]

preprocess_audio_for_model(loadable, shape, feature) ==
    IF ~loadable THEN Raise("LoadError")
    ELSE IF Len(shape) = 2
    THEN Return(AsFloat32(expand_dims(MeanAxis1(feature))))
    ELSE IF Len(shape) = 3
    THEN LET mel_spec ==
                 IF Len(feature[1]) > shape[2]
                 THEN TruncateTime(feature, shape[2])
                 ELSE PadTime(feature, shape[2] - Len(feature[1]))
         IN Return(AsFloat32(expand_dims(Transpose(mel_spec))))
    ELSE Raise("ValueError: Unsupported audio target shape")

AudInit ==
    /\ target_shape \in TargetShapes
    /\ audio_loadable \in BOOLEAN
    /\ \E frames \in 1..MaxFrames :
         raw_feature \in
            IF audio_loadable /\ Len(target_shape) \in {2, 3}
            THEN Matrices(FeatureRows(target_shape), frames)
            ELSE {<<>>}
    /\ apc = "call"
    /\ aud_ret = None

AudIdle ==
    /\ target_shape = <<>>
    /\ audio_loadable = FALSE
    /\ raw_feature = <<>>
    /\ apc = "idle"
    /\ aud_ret = None

AudPreprocess ==
    /\ prog = "preprocess_audio_for_model"
    /\ apc = "call"
    /\ aud_ret' = preprocess_audio_for_model(audio_loadable, target_shape,
                                             raw_feature)
    /\ apc' = "returned"
    /\ UNCHANGED <<target_shape, audio_loadable, raw_feature>>

(***************************************************************************)
(* validate_tflite_model, with the tensors the model declares.             *)
(***************************************************************************)
\* one entry of get_input_details() / get_output_details()
TensorDetails == { [shape |-> <<1, 2>>, dtype |-> d] : d \in Dtypes }
DetailLists == UNION { [1..n -> TensorDetails] : n \in 0..MaxTensors }

FormatCheckStrict(n, info) == IF n # 1 THEN None ELSE info
\* if len(details) != 1: print a warning; the description is not changed
FormatCheck(n, info) == info
\* the warnings lines 48-51 print
FormatWarnings(ins, outs) ==
    (IF Len(ins) # 1 THEN <<"inputs">> ELSE <<>>)
        \o (IF Len(outs) # 1 THEN <<"outputs">> ELSE <<>>)

\* the whole body is inside try/except Exception: a load failure and the
\* IndexError of details[0] on an empty list both end in "return None"
describe_model(loadable, ins, outs) ==
    IF ~loadable \/ ins = <<>> \/ outs = <<>> THEN None
    ELSE LET info == [kind |-> "model_info",
                      input_shape |-> ins[1].shape,
                      input_dtype |-> ins[1].dtype,
                      output_shape |-> outs[1].shape,
                      output_dtype |-> outs[1].dtype,
                      num_inputs |-> Len(ins),
                      num_outputs |-> Len(outs)]
         IN FormatCheck(Len(outs), FormatCheck(Len(ins), info))

StructInit ==
    /\ model_loadable \in BOOLEAN
    /\ input_details \in DetailLists
    /\ output_details \in DetailLists
    /\ tpc = "call"
    /\ warnings = <<>>
    /\ struct_ret = None

StructIdle ==
    /\ model_loadable = FALSE
    /\ input_details = <<>>
    /\ output_details = <<>>
    /\ tpc = "idle"
    /\ warnings = <<>>
    /\ struct_ret = None

StructValidate ==
    /\ prog = "validate_tflite_model"
    /\ tpc = "call"
    /\ struct_ret' = describe_model(model_loadable, input_details, output_details)
    /\ warnings' = IF model_loadable /\ input_details # <<>> /\ output_details # <<>>
                   THEN FormatWarnings(input_details, output_details)
                   ELSE <<>>
    /\ tpc' = "returned"
    /\ UNCHANGED <<model_loadable, input_details, output_details>>

(***************************************************************************)
(* validate_model_accuracy, one test file of the loop per step.            *)
(***************************************************************************)
\* a test file: its position in the directory listing stands for its name
TestFile(name, suffix, readable) ==
    [name |-> name, suffix |-> suffix, readable |-> readable]
\* glob("*.wav") extended by glob("*.npy") for an audio model, glob("*.jpg")
\* for an image model
Suffixes(audio) == IF audio THEN {".wav", ".npy"} ELSE {".jpg"}
TestFileLists(audio) ==
    UNION { { fs \in [1..n -> [name : 1..n, suffix : Suffixes(audio),
                               readable : BOOLEAN]] :
                /\ \A i \in 1..n : fs[i].name = i
                /\ \A i, j \in 1..n :
                      (i < j /\ fs[i].suffix = ".npy") => fs[j].suffix = ".npy" } :
            n \in 0..MaxFiles }

\* a target shape of the given rank
ShapeOfRank(rank) == [k \in 1..rank |-> 1]
\* preprocess_image_for_model: cv2.imread gives None for an unreadable file
\* (ValueError); target_shape[1], target_shape[2] need a rank of 3 or more
preprocess_image_for_model(readable, rank) ==
    IF ~readable THEN Raise("ValueError: Could not load image")
    ELSE IF rank < 3 THEN Raise("IndexError")
    ELSE Return("ndarray")
\* the input prepared for one test file
PrepareTestInput(audio, rank, file) ==
    IF audio
    THEN IF file.suffix = ".npy"
         THEN IF ~file.readable THEN Raise("LoadError")
              ELSE Return(create_sample_audio_data(rank))
         ELSE LET r == preprocess_audio_for_model(file.readable, ShapeOfRank(rank),
                                                  <<<<1>>>>)
              IN IF r.exc # "none" THEN Raise(r.exc) ELSE Return("ndarray")
    ELSE preprocess_image_for_model(file.readable, rank)
\* interpreter.set_tensor(index, value): the runtime raises ValueError for a
\* value that is not an array of the tensor's type, as None is
SetTensorOutcomes(value) ==
    IF value = "None" THEN {"set_tensor raised"}
    ELSE {"ok", "set_tensor raised", "invoke raised"}

AfterFileErrorBreak(i, n) == n + 1
\* except Exception as e: print(...), and the loop goes on with the next file
AfterFileError(i, n) == i + 1

AccInit ==
    /\ acc_is_audio \in BOOLEAN
    /\ acc_rank \in InputRanks
    /\ test_files \in TestFileLists(acc_is_audio)
    /\ acc_pc = "open"
    /\ acc_i = 1
    /\ predictions = <<>>
    /\ acc_outcomes = <<>>
    /\ acc_fed = <<>>
    /\ acc_ret = None

AccIdle ==
    /\ acc_is_audio = FALSE
    /\ acc_rank = 0
    /\ test_files = <<>>
    /\ acc_pc = "idle"
    /\ acc_i = 0
    /\ predictions = <<>>
    /\ acc_outcomes = <<>>
    /\ acc_fed = <<>>
    /\ acc_ret = None

\* the interpreter is opened and the test files are listed; a load failure
\* and an empty list both return None
AccOpen ==
    /\ prog = "validate_model_accuracy"
    /\ acc_pc = "open"
    /\ \E loadOk \in BOOLEAN :
         IF ~loadOk \/ test_files = <<>>
         THEN acc_pc' = "returned" /\ acc_ret' = None
         ELSE acc_pc' = "loop" /\ UNCHANGED acc_ret
    /\ UNCHANGED <<acc_is_audio, acc_rank, test_files, acc_i, predictions,
                   acc_outcomes, acc_fed>>

\* the body of "for test_file in test_files", inside its try/except
AccFile ==
    /\ prog = "validate_model_accuracy"
    /\ acc_pc = "loop"
    /\ acc_i \in 1..Len(test_files)
    /\ LET file == test_files[acc_i]
           input_data == PrepareTestInput(acc_is_audio, acc_rank, file)
       IN
       IF input_data.exc # "none"
       THEN /\ acc_outcomes' = Append(acc_outcomes, input_data.exc)
            /\ acc_i' = AfterFileError(acc_i, Len(test_files))
            /\ UNCHANGED <<predictions, acc_fed>>
       ELSE \E o \in SetTensorOutcomes(input_data.ret), top_class \in Payloads :
              /\ acc_outcomes' = Append(acc_outcomes, o)
              /\ acc_fed' = IF o = "set_tensor raised" THEN acc_fed
                            ELSE Append(acc_fed, file.name)
              /\ IF o = "ok"
                 THEN /\ predictions' =
                           Append(predictions,
                                  [file |-> file.name, top_class |-> top_class])
                      /\ acc_i' = acc_i + 1
                 ELSE /\ acc_i' = AfterFileError(acc_i, Len(test_files))
                      /\ UNCHANGED predictions
    /\ UNCHANGED <<acc_is_audio, acc_rank, test_files, acc_pc, acc_ret>>

\* return predictions
AccReturn ==
    /\ prog = "validate_model_accuracy"
    /\ acc_pc = "loop"
    /\ acc_i > Len(test_files)
    /\ acc_ret' = [kind |-> "predictions", list |-> predictions]
    /\ acc_pc' = "returned"
    /\ UNCHANGED <<acc_is_audio, acc_rank, test_files, acc_i, predictions,
                   acc_outcomes, acc_fed>>

(***************************************************************************)
(* check_models.main, one model of the list per step.                      *)
(***************************************************************************)
\* the list models of main
models == <<"assets/models/flora_model.tflite", "assets/models/bird_model.tflite">>
\* the condition of a model file: missing, refused by tf.lite.Interpreter,
\* refused by allocate_tensors, or a valid model
FileStates == {"missing", "unreadable", "unallocatable", "valid"}

\* check_tflite_model: False on ImportError, on a missing file and on any
\* exception of the runtime; True otherwise
check_tflite_model(installed, state) ==
    IF ~installed THEN FALSE
    ELSE IF state = "missing" THEN FALSE
    ELSE state = "valid"
\* whether check_tflite_model reaches tf.lite.Interpreter(model_path=...)
AsksRuntime(installed, state) == installed /\ state # "missing"

any_values(r) == \E k \in DOMAIN r : r[k]
\* all(results.values())
all_values(r) == \A k \in DOMAIN r : r[k]

CmInit ==
    /\ tf_installed \in BOOLEAN
    /\ model_state \in [SeqToSet(models) -> FileStates]
    /\ cm_pc = "loop"
    /\ cm_i = 1
    /\ cm_results = <<>>
    /\ cm_loads = <<>>
    /\ cm_exit = -1

CmIdle ==
    /\ tf_installed = FALSE
    /\ model_state = <<>>
    /\ cm_pc = "idle"
    /\ cm_i = 0
    /\ cm_results = <<>>
    /\ cm_loads = <<>>
    /\ cm_exit = -1

\* for model in models: results[model] = check_tflite_model(model)
CmCheck ==
    /\ prog = "check_models"
    /\ cm_pc = "loop"
    /\ cm_i \in 1..Len(models)
    /\ LET model == models[cm_i] IN
       /\ cm_results' = (model :> check_tflite_model(tf_installed, model_state[model]))
                           @@ cm_results
       /\ cm_loads' = IF AsksRuntime(tf_installed, model_state[model])
                      THEN Append(cm_loads, model) ELSE cm_loads
    /\ cm_i' = cm_i + 1
    /\ UNCHANGED <<tf_installed, model_state, cm_pc, cm_exit>>

\* the summary is printed; return 0 if all_valid else 1
CmSummary ==
    /\ prog = "check_models"
    /\ cm_pc = "loop"
    /\ cm_i = Len(models) + 1
    /\ cm_exit' = IF all_values(cm_results) THEN 0 ELSE 1
    /\ cm_pc' = "exited"
    /\ UNCHANGED <<tf_installed, model_state, cm_i, cm_results, cm_loads>>

ExtIdle == AudIdle /\ StructIdle /\ AccIdle /\ CmIdle

AuxIdle == InfIdle /\ MemIdle /\ StatIdle /\ ExtIdle

(***************************************************************************)
(* The specification of the two entry points: a run executes one of them.  *)
(***************************************************************************)
Init ==
    /\ \/ prog = "model_tester" /\ ReportInit /\ BatchIdle
       \/ prog = "model_validation" /\ BatchInit /\ ReportIdle
    /\ VariationsIdle /\ BenchIdle /\ StabIdle /\ AuxIdle

Next == ReportNext \/ BatchNext

Spec == Init /\ [][Next]_vars

(***************************************************************************)
(* The specification of test_input_variations.                             *)
(***************************************************************************)
InitVariations ==
    /\ prog = "test_input_variations"
    /\ VariationsInit
    /\ ReportIdle /\ BatchIdle /\ BenchIdle /\ StabIdle /\ AuxIdle

NextVariations ==
    \/ VarBuild /\ UNCHANGED <<prog, reportVars, batchVars, benchVars, stabVars, auxVars>>
    \/ VarPattern /\ UNCHANGED <<prog, reportVars, batchVars, benchVars, stabVars, auxVars>>
    \/ VarReturn /\ UNCHANGED <<prog, reportVars, batchVars, benchVars, stabVars, auxVars>>

SpecVariations == InitVariations /\ [][NextVariations]_vars

(***************************************************************************)
(* The specification of the benchmarks.                                    *)
(***************************************************************************)
InitBench ==
    /\ prog = "benchmark"
    /\ BenchInit
    /\ ReportIdle /\ BatchIdle /\ VariationsIdle /\ StabIdle /\ AuxIdle

NextBench ==
    \/ BenchBuild /\ UNCHANGED <<prog, reportVars, batchVars, variationVars, stabVars, auxVars>>
    \/ BenchWarmup /\ UNCHANGED <<prog, reportVars, batchVars, variationVars, stabVars, auxVars>>
    \/ BenchStartTimed /\ UNCHANGED <<prog, reportVars, batchVars, variationVars, stabVars, auxVars>>
    \/ BenchTimed /\ UNCHANGED <<prog, reportVars, batchVars, variationVars, stabVars, auxVars>>
    \/ BenchStats /\ UNCHANGED <<prog, reportVars, batchVars, variationVars, stabVars, auxVars>>
    \/ BenchAgain /\ UNCHANGED <<prog, reportVars, batchVars, variationVars, stabVars, auxVars>>

SpecBench == InitBench /\ [][NextBench]_vars

(***************************************************************************)
(* The specification of test_numerical_stability.                          *)
(***************************************************************************)
InitStability ==
    /\ prog = "test_numerical_stability"
    /\ StabInit
    /\ ReportIdle /\ BatchIdle /\ VariationsIdle /\ BenchIdle /\ AuxIdle

NextStability ==
    \/ StabSeed /\ UNCHANGED <<prog, reportVars, batchVars, variationVars, benchVars, auxVars>>
    \/ StabInfer /\ UNCHANGED <<prog, reportVars, batchVars, variationVars, benchVars, auxVars>>
    \/ StabAnalyze /\ UNCHANGED <<prog, reportVars, batchVars, variationVars, benchVars, auxVars>>

SpecStability == InitStability /\ [][NextStability]_vars

(***************************************************************************)
(* The specification of test_model_inference.                              *)
(***************************************************************************)
InitInference ==
    /\ prog = "test_model_inference"
    /\ InfInit
    /\ ReportIdle /\ BatchIdle /\ VariationsIdle /\ BenchIdle /\ StabIdle
    /\ MemIdle /\ StatIdle /\ ExtIdle

NextInference ==
    \/ InfLoad /\ UNCHANGED <<prog, reportVars, batchVars, compVars, memVars, statVars, extVars>>
    \/ InfIteration /\ UNCHANGED <<prog, reportVars, batchVars, compVars, memVars, statVars, extVars>>
    \/ InfAnalyze /\ UNCHANGED <<prog, reportVars, batchVars, compVars, memVars, statVars, extVars>>

SpecInference == InitInference /\ [][NextInference]_vars

(***************************************************************************)
(* The specification of test_memory_usage.                                 *)
(***************************************************************************)
InitMemory ==
    /\ prog = "test_memory_usage"
    /\ MemInit
    /\ ReportIdle /\ BatchIdle /\ VariationsIdle /\ BenchIdle /\ StabIdle
    /\ InfIdle /\ StatIdle /\ ExtIdle

NextMemory ==
    \/ MemBaseline /\ UNCHANGED <<prog, reportVars, batchVars, compVars, infVars, statVars, extVars>>
    \/ MemInfer /\ UNCHANGED <<prog, reportVars, batchVars, compVars, infVars, statVars, extVars>>
    \/ MemReturn /\ UNCHANGED <<prog, reportVars, batchVars, compVars, infVars, statVars, extVars>>

SpecMemory == InitMemory /\ [][NextMemory]_vars

(***************************************************************************)
(* The specification of the latency statistics.                            *)
(***************************************************************************)
InitStats ==
    /\ prog = "latency_statistics"
    /\ StatInit
    /\ ReportIdle /\ BatchIdle /\ VariationsIdle /\ BenchIdle /\ StabIdle
    /\ InfIdle /\ MemIdle /\ ExtIdle

NextStats ==
    \/ StatMeasure /\ UNCHANGED <<prog, reportVars, batchVars, compVars, infVars, memVars, extVars>>
    \/ StatCompute /\ UNCHANGED <<prog, reportVars, batchVars, compVars, infVars, memVars, extVars>>

SpecStats == InitStats /\ [][NextStats]_vars

(***************************************************************************)
(* The specification of preprocess_audio_for_model.                        *)
(***************************************************************************)
OthersIdle ==
    /\ ReportIdle /\ BatchIdle /\ VariationsIdle /\ BenchIdle /\ StabIdle
    /\ InfIdle /\ MemIdle /\ StatIdle
othersVars == <<prog, reportVars, batchVars, compVars, infVars, memVars, statVars>>

InitAudio ==
    /\ prog = "preprocess_audio_for_model"
    /\ AudInit
    /\ OthersIdle /\ StructIdle /\ AccIdle /\ CmIdle

NextAudio ==
    \/ AudPreprocess /\ UNCHANGED <<othersVars, structVars, accVars, cmVars>>

SpecAudio == InitAudio /\ [][NextAudio]_vars

(***************************************************************************)
(* The specification of validate_tflite_model.                             *)
(***************************************************************************)
InitStructure ==
    /\ prog = "validate_tflite_model"
    /\ StructInit
    /\ OthersIdle /\ AudIdle /\ AccIdle /\ CmIdle

NextStructure ==
    \/ StructValidate /\ UNCHANGED <<othersVars, audVars, accVars, cmVars>>

SpecStructure == InitStructure /\ [][NextStructure]_vars

(***************************************************************************)
(* The specification of validate_model_accuracy.                           *)
(***************************************************************************)
InitAccuracy ==
    /\ prog = "validate_model_accuracy"
    /\ AccInit
    /\ OthersIdle /\ AudIdle /\ StructIdle /\ CmIdle

NextAccuracy ==
    \/ AccOpen /\ UNCHANGED <<othersVars, audVars, structVars, cmVars>>
    \/ AccFile /\ UNCHANGED <<othersVars, audVars, structVars, cmVars>>
    \/ AccReturn /\ UNCHANGED <<othersVars, audVars, structVars, cmVars>>

SpecAccuracy == InitAccuracy /\ [][NextAccuracy]_vars

(***************************************************************************)
(* The specification of the three functions that feed a model synthetic    *)
(* sample data: a run executes one of test_model_inference,                *)
(* benchmark_model_performance and validate_model_accuracy.                *)
(***************************************************************************)
InitSynthetic ==
    /\ \/ prog = "test_model_inference" /\ InfInit /\ BenchIdle /\ AccIdle
       \/ /\ prog = "benchmark" /\ BenchInit
          /\ bfun = "benchmark_model_performance"
          /\ InfIdle /\ AccIdle
       \/ prog = "validate_model_accuracy" /\ AccInit /\ InfIdle /\ BenchIdle
    /\ ReportIdle /\ BatchIdle /\ VariationsIdle /\ StabIdle
    /\ MemIdle /\ StatIdle /\ AudIdle /\ StructIdle /\ CmIdle

restVars == <<prog, reportVars, batchVars, variationVars, stabVars, memVars,
              statVars, audVars, structVars, cmVars>>

NextSynthetic ==
    \/ InfLoad /\ UNCHANGED <<restVars, benchVars, accVars>>
    \/ InfIteration /\ UNCHANGED <<restVars, benchVars, accVars>>
    \/ InfAnalyze /\ UNCHANGED <<restVars, benchVars, accVars>>
    \/ BenchBuild /\ UNCHANGED <<restVars, infVars, accVars>>
    \/ BenchWarmup /\ UNCHANGED <<restVars, infVars, accVars>>
    \/ BenchStartTimed /\ UNCHANGED <<restVars, infVars, accVars>>
    \/ BenchTimed /\ UNCHANGED <<restVars, infVars, accVars>>
    \/ BenchStats /\ UNCHANGED <<restVars, infVars, accVars>>
    \/ AccOpen /\ UNCHANGED <<restVars, infVars, benchVars>>
    \/ AccFile /\ UNCHANGED <<restVars, infVars, benchVars>>
    \/ AccReturn /\ UNCHANGED <<restVars, infVars, benchVars>>

SpecSynthetic == InitSynthetic /\ [][NextSynthetic]_vars

(***************************************************************************)
(* The specification of check_models.main.                                 *)
(***************************************************************************)
InitCheckModels ==
    /\ prog = "check_models"
    /\ CmInit
    /\ OthersIdle /\ AudIdle /\ StructIdle /\ AccIdle

NextCheckModels ==
    \/ CmCheck /\ UNCHANGED <<othersVars, audVars, structVars, accVars>>
    \/ CmSummary /\ UNCHANGED <<othersVars, audVars, structVars, accVars>>

SpecCheckModels == InitCheckModels /\ [][NextCheckModels]_vars

(***************************************************************************)
(* Properties of the two entry points.                                     *)
(***************************************************************************)
\* the checks logged for file i
ChecksOf(i) == { vlog[k][2] : k \in { j \in 1..Len(vlog) : vlog[j][1] = i } }
\* the failure cause logged for check c of file i ("none": it succeeded)
CauseOf(i, c) ==
    LET k == CHOOSE j \in 1..Len(vlog) : vlog[j][1] = i /\ vlog[j][2] = c IN vlog[k][3]
\* the loop is past file i
Finished(i) == i < vidx
LoopOver == vpc \in {"save", "summary", "done", "raised"}
\* the key of validation_results' entries that holds check c's result
FieldOf(c, e) ==
    CASE c = "structure" -> e.model_info
      [] c = "inference" -> e.inference
      [] c = "benchmark" -> e.performance
      [] c = "accuracy" -> e.accuracy

\* C2: in the batch driver no failure of a model or of a check stops the
\* batch: every later model file is still validated, and the result of every
\* check that completed for a model is recorded in the report mapping, also
\* when another check of that model failed (partial results are kept).
C2_PartialResultsKept ==
    prog = "model_validation" =>
        /\ vexc # "LoadError" /\ vexc # "InferenceError"
        /\ LoopOver => \A i \in 1..Len(tflite_files) : "structure" \in ChecksOf(i)
        /\ \A i \in 1..Len(tflite_files) : \A c \in ChecksOf(i) :
              (Finished(i) /\ CauseOf(i, c) = "none") =>
                  /\ tflite_files[i] \in DOMAIN validation_results
                  /\ FieldOf(c, validation_results[tflite_files[i]]) # None

\* the check that follows c in main
FollowingCheck(c) ==
    CASE c = "inference" -> "benchmark"
      [] c = "benchmark" -> "accuracy"
      [] OTHER -> "none"

\* C3: a failing inference call aborts only the check it happens in: no
\* InferenceError leaves generate_test_report and all four of its checks are
\* run; in main, after the inference test or the benchmark of a file failed
\* on an inference call, the check that follows it is still run for that file.
C3_OnlyFailingCheckAborted ==
    /\ prog = "model_tester" =>
          /\ rexc # "InferenceError"
          /\ rpc \in {"save", "returned", "raised"} =>
                SeqToSet(rlog) = {"speed", "input_variations", "memory", "stability"}
    /\ prog = "model_validation" =>
          \A i \in 1..Len(tflite_files) : \A c \in ChecksOf(i) :
              (Finished(i) /\ CauseOf(i, c) = "InferenceError"
                   /\ FollowingCheck(c) # "none")
                  => FollowingCheck(c) \in ChecksOf(i)

\* C5: a failing write of the report file does not invalidate the results:
\* once its four checks are recorded generate_test_report returns the report
\* to its caller, and once main's loop is over every stored model is
\* summarised.
C5_WriteFailureKeepsResults ==
    /\ (prog = "model_tester" /\ rpc \in {"returned", "raised"}
            /\ tests.stability.st = "ok")
          => rret = Report(tests)
    /\ (prog = "model_validation" /\ vpc \in {"done", "raised"})
          => vsummary = KeysInOrder(tflite_files, validation_results)

\* C6: when the host cannot report process memory (psutil is missing), the
\* memory check does not raise: tests.memory is the 'psutil not available'
\* error entry, the speed and input_variations results recorded before are
\* unchanged, the stability check is run next, and a report that is returned
\* holds the stability result and the memory error entry.
C6_MemoryUnavailableNotFatal ==
    (prog = "model_tester" /\ ~psutil_available /\ "memory" \in SeqToSet(rlog)) =>
        /\ rexc # "ImportError"
        /\ tests.memory = ErrorResult("psutil not available")
        /\ memSnapshot.speed.st = "ok" /\ tests.speed = memSnapshot.speed
        /\ memSnapshot.input_variations.st = "ok"
        /\ tests.input_variations = memSnapshot.input_variations
        /\ rpc # "stability" => rlog[Len(rlog)] = "stability"
        /\ rpc = "returned" =>
              /\ tests.stability.st = "ok"
              /\ rret.tests.memory = ErrorResult("psutil not available")

\* C6 witness: a report returned on a host without psutil
C6_Witness ==
    /\ prog = "model_tester" /\ ~psutil_available /\ rpc = "returned"
    /\ tests.memory.st = "error" /\ tests.stability.st = "ok"
    /\ tests.input_variations.val # {}

\* the order of the checks in generate_test_report and in main
ReportOrder == <<"speed", "input_variations", "memory", "stability">>
BatchOrder == <<"structure", "inference", "benchmark", "accuracy">>
\* the checks logged for file i, in the order they were run
CheckSeqOf(i) ==
    LET es == SelectSeq(vlog, LAMBDA e : e[1] = i) IN
    [k \in 1..Len(es) |-> es[k][2]]
\* file i was given up: its structure validation or inference test failed
Abandoned(i) ==
    \E k \in 1..Len(vlog) :
        /\ vlog[k][1] = i /\ vlog[k][2] \in {"structure", "inference"}
        /\ vlog[k][3] # "none"

C15_StrictSequence ==
    /\ rlog = SubSeq(ReportOrder, 1, Len(rlog))
    /\ \A i \in 1..Len(tflite_files) :
          CheckSeqOf(i) = SubSeq(BatchOrder, 1, Len(CheckSeqOf(i)))
    /\ \A k \in 1..Len(vlog) :
          /\ k = 1 => vlog[k][1] = 1
          /\ k > 1 => vlog[k][1] \in {vlog[k - 1][1], vlog[k - 1][1] + 1}
          /\ (k > 1 /\ vlog[k][1] = vlog[k - 1][1] + 1) =>
                \/ tflite_files[vlog[k - 1][1]] \in DOMAIN validation_results
                \/ Abandoned(vlog[k - 1][1])

\* C15 witness: the second file is past its benchmark after the first was
\* stored with all four checks
C15_Witness ==
    /\ prog = "model_validation" /\ vidx = 2 /\ vpc = "accuracy"
    /\ CheckSeqOf(1) = BatchOrder
    /\ tflite_files[1] \in DOMAIN validation_results

\* every entry of the report mapping belongs to a file the loop is past and
\* whose four checks were all run
EntriesComplete ==
    \A n \in DOMAIN validation_results :
        \E i \in 1..Len(tflite_files) :
            /\ tflite_files[i] = n /\ Finished(i)
            /\ CheckSeqOf(i) = BatchOrder
\* a step keeps every entry of the report mapping as it is
EntriesKept ==
    \A n \in DOMAIN validation_results :
        /\ n \in DOMAIN validation_results'
        /\ validation_results'[n] = validation_results[n]

HandleUses == report_uses \o batch_uses

\* C17 as claimed: for one model every component drives one and the same
\* Model Runtime handle.
C17_OneHandlePerModel ==
    \A j, k \in 1..Len(HandleUses) :
        HandleUses[j].item = HandleUses[k].item =>
            HandleUses[j].handle = HandleUses[k].handle

\* C17 amended: in ModelTester every check drives the one interpreter opened
\* by __init__; in model_validation every check function drives an interpreter
\* it opened itself, which no other check drives; in both the uses follow
\* the checks one by one, in the order the checks ran.
C17_HandlesSequential ==
    /\ \A k \in 1..Len(report_uses) :
          report_uses[k].handle = 1 /\ interpreter = 1
    /\ [k \in 1..Len(report_uses) |-> report_uses[k].check] =
          SelectSeq(rlog, LAMBDA c : c # "memory" \/ psutil_available)
    /\ interpreters_opened = Len(batch_uses)
    /\ \A j, k \in 1..Len(batch_uses) :
          j # k => batch_uses[j].handle # batch_uses[k].handle
    /\ [k \in 1..Len(batch_uses) |-> <<batch_uses[k].item, batch_uses[k].check>>] =
          LET opened == SelectSeq(vlog, LAMBDA e : e[3] # "LoadError") IN
          [k \in 1..Len(opened) |-> <<opened[k][1], opened[k][2]>>]

\* C17 witness: the benchmark and the accuracy check of one file each drove
\* a handle of their own
C17_Witness ==
    \E j, k \in 1..Len(batch_uses) :
        /\ batch_uses[j].item = batch_uses[k].item
        /\ batch_uses[j].check = "benchmark" /\ batch_uses[k].check = "accuracy"
        /\ batch_uses[j].handle # batch_uses[k].handle

\* C18: a report returned by generate_test_report has the keys model_info,
\* timestamp and tests; tests holds the results of speed, input_variations,
\* memory and stability, memory being the error entry when psutil is
\* missing; and the document written to output_path is the returned one.
C18_ReportShape ==
    (prog = "model_tester" /\ rpc = "returned") =>
        /\ DOMAIN rret = {"kind", "model_info", "timestamp", "tests"}
        /\ DOMAIN rret.tests = SeqToSet(ReportOrder)
        /\ \A c \in SeqToSet(ReportOrder) : rret.tests[c].st \in {"ok", "error"}
        /\ rret.tests.speed.st = "ok" /\ rret.tests.stability.st = "ok"
        /\ rret.tests.memory.st = IF psutil_available THEN "ok" ELSE "error"
        /\ rret.tests = tests
        /\ output_path => rfile = rret

\* C18 witness: a report with the memory error entry was written and returned
C18_Witness ==
    /\ prog = "model_tester" /\ rpc = "returned" /\ output_path
    /\ rret.tests.memory.st = "error" /\ rfile.tests.memory.st = "error"

\* the modality the file name stands for: it holds 'bird' or 'audio',
\* whatever the case of its letters
NamesAudio(name) ==
    \/ Contains(lower(name), <<"b", "i", "r", "d">>)
    \/ Contains(lower(name), <<"a", "u", "d", "i", "o">>)

\* C26: a model file is treated as an audio model iff its name, compared
\* case-insensitively, contains 'bird' or 'audio'; that modality is the one
\* passed to every check of the model that takes it and the one recorded as
\* is_audio_model in its report entry.
C26_ModalityFromName ==
    prog = "model_validation" =>
        /\ \A k \in 1..Len(modality_passed) :
              modality_passed[k].is_audio
                 <=> NamesAudio(tflite_files[modality_passed[k].item])
        /\ \A k \in 1..Len(vlog) :
              vlog[k][2] # "structure" =>
                 \E j \in 1..Len(modality_passed) :
                    /\ modality_passed[j].item = vlog[k][1]
                    /\ modality_passed[j].check = vlog[k][2]
        /\ \A n \in DOMAIN validation_results :
              validation_results[n].is_audio_model <=> NamesAudio(n)

\* the entry of a file named with a capital 'B' is stored as an audio model
\* after its three checks were called with is_audio_model = TRUE
C26_Witness ==
    /\ prog = "model_validation"
    /\ \E n \in DOMAIN validation_results :
          /\ ~IsAudioNameCaseSensitive(n)
          /\ validation_results[n].is_audio_model
          /\ \E i \in 1..Len(tflite_files) :
                /\ tflite_files[i] = n
                /\ \A c \in {"inference", "benchmark", "accuracy"} :
                      \E j \in 1..Len(modality_passed) :
                         modality_passed[j] =
                            [item |-> i, check |-> c, is_audio |-> TRUE]

(***************************************************************************)
(* Properties of test_input_variations (SpecVariations).                   *)
(***************************************************************************)
\* C1: whatever subset of the patterns fails at inference, the returned
\* mapping has one entry per pattern: a failing pattern is recorded with
\* success = FALSE and its error message, every other pattern with
\* success = TRUE, and the patterns after a failing one are still run (no
\* exception leaves the method, every pattern is run once, in order).
C1_EveryPatternRecorded ==
    /\ pat_exc = "none"
    /\ \A k \in 1..Len(pat_calls) : pat_calls[k] = test_patterns[k]
    /\ VarReturned =>
          /\ pat_calls = test_patterns
          /\ DOMAIN pat_ret = PatternNames
          /\ \A p \in PatternNames :
                IF pat_raised[p] # "none"
                THEN pat_ret[p] = [success |-> FALSE, error |-> pat_raised[p]]
                ELSE pat_ret[p].success = TRUE

\* C1 witness: the mapping is returned after the first and the fourth pattern
\* failed and the others, the last one included, succeeded
C1_Witness ==
    /\ VarReturned
    /\ pat_raised["zeros"] # "none" /\ pat_raised["random_normal"] # "none"
    /\ pat_raised["ones"] = "none" /\ pat_raised["max_values"] = "none"
    /\ pat_ret["max_values"].success

\* every element of tensor t is v
AllElements(t, v) ==
    /\ Len(t.data) = Size(input_shape)
    /\ \A k \in 1..Len(t.data) : t.data[k] = v
PatternsBuilt == prog = "test_input_variations" /\ pat_idx >= 1

\* C24: for every input shape and both dtypes, 'zeros', 'ones' and
\* 'max_values' are tensors of that shape and dtype; every element of 'zeros'
\* is 0, of 'ones' is 1, and of 'max_values' is 255 for uint8 and 1 otherwise.
C24_ConstantPatterns ==
    PatternsBuilt =>
        /\ \A p \in {"zeros", "ones", "max_values"} :
              /\ patterns[p].shape = input_shape
              /\ patterns[p].dtype = input_dtype
        /\ AllElements(patterns["zeros"], Value(0))
        /\ AllElements(patterns["ones"], Value(1))
        /\ AllElements(patterns["max_values"],
                       IF input_dtype = "uint8" THEN Value(255) ELSE Value(1))

\* the uint8 'max_values' tensor of 255s has been fed to the model
C24_Witness ==
    /\ PatternsBuilt
    /\ input_dtype = "uint8"
    /\ Len(pat_inputs) = NumPatterns
    /\ pat_inputs[NumPatterns].data[1] = Value(255)

\* C28: for both dtypes the method runs one inference per pattern and returns
\* a mapping whose keys are exactly the five pattern names; a successful
\* entry carries top_class and top_confidence, the argmax and the max of the
\* first row of the output, when the output has rank 2 or more, and None for
\* both otherwise.
C28_FivePatternsTopClass ==
    VarReturned =>
        /\ pat_calls = test_patterns
        /\ DOMAIN pat_ret =
              {"zeros", "ones", "random_uniform", "random_normal", "max_values"}
        /\ \A p \in DOMAIN pat_ret :
              pat_ret[p].success =>
                 LET out == pat_outputs[p] IN
                 IF Len(out.shape) >= 2
                 THEN \E k \in 1..Size(Tail(out.shape)) :
                        /\ \A j \in 1..Size(Tail(out.shape)) :
                              out.data[j] <= out.data[k]
                        /\ pat_ret[p].top_class = Number(k - 1)
                        /\ pat_ret[p].top_confidence = Number(out.data[k])
                 ELSE /\ pat_ret[p].top_class = None
                      /\ pat_ret[p].top_confidence = None

\* the mapping is returned with an entry of a rank-2 output and an entry of a
\* rank-1 output
C28_Witness ==
    /\ VarReturned
    /\ pat_ret["zeros"].success /\ pat_ret["zeros"].top_class = Number(1)
    /\ pat_ret["ones"].success /\ pat_ret["ones"].top_class = None

(***************************************************************************)
(* Properties of the benchmarks (SpecBench).                               *)
(***************************************************************************)
\* the inference calls of the current benchmark call
ThisCall == SelectSeq(invocations, LAMBDA e : e.call = bcall)
FailedCalls == { k \in 1..Len(ThisCall) : ~ThisCall[k].ok }

C7_WarmupThenTimed ==
    (bpc = "returned" /\ bret # None) =>
        /\ Len(ThisCall) = warmup_iterations + num_iterations
        /\ test_input = tensors_built /\ tensors_built <= bcall
        /\ \A k \in 1..Len(ThisCall) :
              /\ ThisCall[k].tensor = test_input
              /\ ThisCall[k].phase =
                    IF k <= warmup_iterations THEN "warmup" ELSE "timed"
        /\ bret.num_iterations = num_iterations
        /\ bret.samples =
              [k \in 1..num_iterations |->
                 [call |-> bcall,
                  elapsed |-> ThisCall[warmup_iterations + k].elapsed]]

\* C7 witness: the second benchmark call returned statistics over two samples
\* that differ from the first call's
C7_Witness ==
    /\ bpc = "returned" /\ bret # None /\ bcall = 2
    /\ warmup_iterations > 0 /\ num_iterations = 2
    /\ \E k \in 1..Len(invocations) :
          /\ invocations[k].call = 1 /\ invocations[k].phase = "timed"
          /\ invocations[k].ok /\ invocations[k].elapsed = 1
    /\ bret.total = 0

\* C20: a benchmark with iterations >= 1 that returns statistics returns a
\* mean elapsed time > 0 and an fps that is the inverse of that mean, for
\* every sequence of elapsed times its timer can measure.
C20_PositiveMeanInverseFps ==
    (bpc = "returned" /\ bret # None) =>
        /\ bret.mean_time.num > 0
        /\ ~bret.fps.inf
        /\ bret.fps.num * bret.mean_time.num = bret.fps.den * bret.mean_time.den

(***************************************************************************)
(* Properties of test_numerical_stability (SpecStability).                 *)
(***************************************************************************)
\* C8: exactly one input tensor is built, from the fixed seed; every
\* inference call is made on that tensor; every collected output is what the
\* runtime produced at its call, whatever the runtime produced later; and a
\* result is computed after exactly num_tests calls from exactly the
\* num_tests outputs produced.
C8_OneSeededInput ==
    /\ stab_tensors <= 1
    /\ \A k \in 1..Len(stab_calls) :
          stab_calls[k] = [seed |-> StabilitySeed, id |-> 1]
    /\ Len(outputs) = Len(produced)
    /\ \A k \in 1..Len(outputs) : Deref(outputs[k]) = produced[k]
    /\ spc = "returned" =>
          /\ Len(stab_calls) = num_tests
          /\ Len(produced) = num_tests
          /\ sret.analysed = produced

\* C8 witness: a result over five outputs, the first unlike the last
C8_Witness ==
    /\ spc = "returned" /\ num_tests = 5
    /\ produced[1] # produced[5]
    /\ sret.analysed[1] = produced[1]

\* every call produced the same array
SameOutputs == \A k \in 1..Len(produced) : produced[k] = produced[1]
NaNFree == \A k \in 1..Len(produced) : \A e \in 1..Len(produced[k]) :
               ~IsNaN(produced[k][e])

\* C9: a runtime that returns the same output array on every call yields
\* is_deterministic = TRUE, max_variance = 0 and mean_variance = 0, for every
\* num_tests >= 1 (stated here for outputs without NaN, where the code
\* already departs from it: np.var sums and divides in float32, so the mean
\* of five equal elements need not be that element).
C9_SameOutputZeroVariance ==
    (spc = "returned" /\ SameOutputs /\ NaNFree) =>
        /\ sret.is_deterministic
        /\ sret.max_variance = 0
        /\ sret.mean_variance = 0

\* first and other match within absolute tolerance 1e-7 and relative
\* tolerance 1e-7 (of other), in units of 2^-24
WithinTolerance(first, other) ==
    /\ first # NaN /\ other # NaN
    /\ 10000000 * Abs(first - other) <= 16777216 + Abs(other)

\* C10: is_deterministic is TRUE iff every output after the first matches the
\* first elementwise within the tolerance; when some run differs beyond it,
\* is_deterministic is FALSE and the variances are still reported (not 0).
C10_DeterministicIffWithinTolerance ==
    spc = "returned" =>
        /\ sret.is_deterministic <=>
              \A k \in 2..num_tests : \A e \in 1..Len(produced[1]) :
                  WithinTolerance(produced[1][e], produced[k][e])
        /\ ~sret.is_deterministic =>
              /\ sret.max_variance # 0 /\ sret.mean_variance # 0
              /\ NaNFree => (sret.max_variance > 0 /\ sret.mean_variance > 0)

\* C10 witness: in one result the second run differs from the first beyond
\* the tolerance in its second element only; is_deterministic is FALSE
C10_Witness ==
    /\ spc = "returned" /\ num_tests >= 3 /\ NaNFree
    /\ produced[2][1] = produced[1][1]
    /\ ~WithinTolerance(produced[1][2], produced[2][2])
    /\ ~sret.is_deterministic /\ sret.max_variance > 0

(***************************************************************************)
(* Properties of test_model_inference (SpecInference).                     *)
(***************************************************************************)
\* C11: the is_deterministic verdict of test_model_inference rests on
\* num_tests inferences fed the same input tensor, so a model that is a pure
\* function of its input (every model of this specification is) is always
\* reported as deterministic.
C11_OneFixedInput ==
    (ipc = "returned" /\ iret.success) =>
        /\ \A k \in 1..Len(inf_inputs) :
              inf_inputs[k].content = inf_inputs[1].content
        /\ iret.is_deterministic

(***************************************************************************)
(* Properties of test_memory_usage (SpecMemory).                           *)
(***************************************************************************)
\* the events of one kind, in order
EventsOf(kind) == SelectSeq(mem_events, LAMBDA e : e.ev = kind)
\* position of the sample taken at iteration i
SamplePos(i) == CHOOSE k \in 1..Len(mem_events) :
                    mem_events[k].ev = "sample" /\ mem_events[k].i = i

\* C12: the baseline is read before the first inference; a result is returned
\* after exactly 50 inferences, numbered 0..49 in order; a sample is taken
\* right after the inference of iterations 0, 10, 20, 30 and 40 and at no
\* other, so memory_samples holds exactly these 5 readings in that order.
C12_BaselineThenFiveSamples ==
    /\ mem_events # <<>> =>
          /\ mem_events[1].ev = "baseline"
          /\ \A k \in 2..Len(mem_events) : mem_events[k].ev # "baseline"
    /\ mpc = "returned" =>
          /\ Len(EventsOf("infer")) = 50
          /\ \A k \in 1..50 : EventsOf("infer")[k].i = k - 1
          /\ Len(EventsOf("sample")) = 5
          /\ \A k \in 1..5 :
                /\ EventsOf("sample")[k].i = 10 * (k - 1)
                /\ mem_events[SamplePos(10 * (k - 1)) - 1] =
                      [ev |-> "infer", i |-> 10 * (k - 1), mb |-> 0]
                /\ mret.memory_samples[k] = EventsOf("sample")[k].mb
          /\ Len(mret.memory_samples) = 5

\* C12 witness: a result whose five samples are not all the same reading
C12_Witness ==
    /\ mpc = "returned"
    /\ mret.memory_samples[1] # mret.memory_samples[5]
    /\ Len(mem_events) = 56

\* every memory reading of the run: the baseline, then the samples
MemoryTrace == <<baseline_memory>> \o memory_usage

\* C13: in the memory result the baseline is the first reading of the trace,
\* peak_memory_mb is the maximum of the whole trace (baseline included) and
\* memory_increase_mb = peak_memory_mb - baseline_memory_mb.
C13_PeakOfWholeTrace ==
    mpc = "returned" =>
        /\ mret.baseline_memory_mb = mem_events[1].mb
        /\ \A k \in 1..Len(MemoryTrace) : mret.peak_memory_mb >= MemoryTrace[k]
        /\ \E k \in 1..Len(MemoryTrace) : mret.peak_memory_mb = MemoryTrace[k]
        /\ mret.memory_increase_mb = mret.peak_memory_mb - mret.baseline_memory_mb

\* C29: for every sequence of memory readings the result has
\* peak_memory_mb >= baseline_memory_mb, so that memory_increase_mb is never
\* negative.
C29_IncreaseNeverNegative ==
    mpc = "returned" =>
        /\ mret.peak_memory_mb >= mret.baseline_memory_mb
        /\ mret.memory_increase_mb >= 0

(***************************************************************************)
(* Properties of the latency statistics (SpecStats).                       *)
(***************************************************************************)
\* C19: for every non-empty sequence of timing samples the statistics satisfy
\* min <= mean <= max, min <= median <= max and
\* percentile_95 <= percentile_99 <= max.
C19_StatisticsOrdered ==
    lat_pc = "done" =>
        /\ lat_stats.min_time_ms <= lat_stats.mean_time_ms
        /\ lat_stats.mean_time_ms <= lat_stats.max_time_ms
        /\ lat_stats.min_time_ms <= lat_stats.median_time_ms
        /\ lat_stats.median_time_ms <= lat_stats.max_time_ms
        /\ lat_stats.percentile_95_ms <= lat_stats.percentile_99_ms
        /\ lat_stats.percentile_99_ms <= lat_stats.max_time_ms

(***************************************************************************)
(* Properties of preprocess_audio_for_model (SpecAudio).                   *)
(***************************************************************************)
Min(a, b) == IF a < b THEN a ELSE b
\* the tensor a successful call returned
AudioTensor == aud_ret.ret.data
AudioReturned == apc = "returned" /\ aud_ret.exc = "none"

\* C21: for a rank-3 target shape [1, T, F] the returned tensor has shape
\* [1, T, F] for every raw feature length L; its first min(L, T) time steps
\* are the raw feature and the steps after L are zeros.
C21_TimeAxisFitted ==
    (AudioReturned /\ Len(target_shape) = 3) =>
        LET T == target_shape[2]
            F == target_shape[3]
            L == Len(raw_feature[1])
        IN /\ Len(AudioTensor) = 1
           /\ Len(AudioTensor[1]) = T
           /\ \A t \in 1..T :
                /\ Len(AudioTensor[1][t]) = F
                /\ \A f \in 1..F :
                     AudioTensor[1][t][f] =
                        IF t <= Min(L, T) THEN raw_feature[f][t] ELSE 0

\* a rank-3 call on a feature shorter than T has returned: it was padded
C21_Witness ==
    /\ AudioReturned
    /\ Len(target_shape) = 3
    /\ Len(raw_feature[1]) < target_shape[2]
    /\ AudioTensor[1][target_shape[2]][1] = 0

\* C22: the call branches on the rank of the target shape only: rank 2 gives
\* a tensor of shape [1, target_shape[1]], rank 3 one of shape
\* [1, target_shape[1], target_shape[2]], every other rank raises the
\* unsupported-shape error and returns no tensor; a returned tensor has a
\* leading dimension of 1.
C22_BranchOnRank ==
    (apc = "returned" /\ audio_loadable) =>
        /\ Len(target_shape) = 2 =>
             /\ AudioReturned
             /\ Len(AudioTensor) = 1
             /\ Len(AudioTensor[1]) = target_shape[2]
        /\ Len(target_shape) = 3 =>
             /\ AudioReturned
             /\ Len(AudioTensor) = 1
             /\ Len(AudioTensor[1]) = target_shape[2]
             /\ \A t \in 1..target_shape[2] :
                  Len(AudioTensor[1][t]) = target_shape[3]
        /\ Len(target_shape) \notin {2, 3} =>
             /\ aud_ret.exc = "ValueError: Unsupported audio target shape"
             /\ aud_ret.ret = None

\* a rank-4 call on a decodable file has raised
C22_Witness ==
    /\ apc = "returned"
    /\ audio_loadable
    /\ Len(target_shape) = 4
    /\ aud_ret.exc = "ValueError: Unsupported audio target shape"

(***************************************************************************)
(* Properties of validate_tflite_model (SpecStructure).                    *)
(***************************************************************************)
\* C25: a returned model description has num_inputs >= 1 and
\* num_outputs >= 1; a loadable model with at least one input and one output
\* gets its description, with a warning and nothing more for a count other
\* than 1; a model with no inputs or no outputs gets None.
C25_DescriptionNeedsTensors ==
    tpc = "returned" =>
        /\ struct_ret # None =>
              /\ struct_ret.num_inputs = Len(input_details)
              /\ struct_ret.num_outputs = Len(output_details)
              /\ struct_ret.num_inputs >= 1 /\ struct_ret.num_outputs >= 1
        /\ (model_loadable /\ Len(input_details) >= 1 /\ Len(output_details) >= 1)
              => /\ struct_ret # None
                 /\ Len(input_details) # 1 <=> "inputs" \in SeqToSet(warnings)
                 /\ Len(output_details) # 1 <=> "outputs" \in SeqToSet(warnings)
        /\ (Len(input_details) = 0 \/ Len(output_details) = 0)
              => struct_ret = None

\* a model with two inputs got its description and a warning
C25_Witness ==
    /\ tpc = "returned"
    /\ Len(input_details) = 2
    /\ struct_ret # None
    /\ warnings = <<"inputs">>

(***************************************************************************)
(* Properties of validate_model_accuracy (SpecAccuracy).                   *)
(***************************************************************************)
\* the names of the files whose loop body ended without an exception, in
\* processing order
RECURSIVE SucceededFiles(_)
SucceededFiles(k) ==
    IF k = 0 THEN <<>>
    ELSE SucceededFiles(k - 1)
            \o (IF acc_outcomes[k] = "ok" THEN <<test_files[k].name>> ELSE <<>>)

\* C27: a test file whose decoding, preprocessing or inference fails is
\* fatal to that file only: every file of the list is processed, and the
\* returned predictions hold one entry per file that succeeded, in
\* processing order, and none for a file that failed.
C27_FailureSkipsOneFile ==
    /\ (acc_pc = "loop" /\ Len(acc_outcomes) < Len(test_files))
          => acc_i = Len(acc_outcomes) + 1
    /\ (acc_pc = "returned" /\ acc_ret # None) =>
          /\ Len(acc_outcomes) = Len(test_files)
          /\ [k \in 1..Len(acc_ret.list) |-> acc_ret.list[k].file]
                = SucceededFiles(Len(test_files))

\* predictions are returned for the first and the third file after the
\* second one failed
C27_Witness ==
    /\ acc_pc = "returned"
    /\ acc_ret # None
    /\ Len(test_files) = 3
    /\ Len(acc_outcomes) = 3
    /\ acc_outcomes[1] = "ok" /\ acc_outcomes[2] # "ok" /\ acc_outcomes[3] = "ok"
    /\ Len(acc_ret.list) = 2

(***************************************************************************)
(* Properties of the callers of create_sample_audio_data (SpecSynthetic).  *)
(***************************************************************************)
\* the ranks create_sample_audio_data builds a tensor for
AudioRanks == {2, 3, 4}

C30_ExitStatus ==
    prog = "check_models" =>
        /\ \A m \in SeqToSet(cm_loads) : model_state[m] # "missing"
        /\ cm_pc = "exited" =>
              /\ DOMAIN cm_results = SeqToSet(models)
              /\ cm_exit = 0 <=> \A m \in SeqToSet(models) : cm_results[m]
              /\ cm_exit \in {0, 1}
              /\ \A m \in SeqToSet(models) :
                    model_state[m] = "missing" => ~cm_results[m]

\* main exited with 1 after the first model was missing and the second one,
\* checked all the same, was valid
C30_Witness ==
    /\ cm_pc = "exited"
    /\ model_state[models[1]] = "missing"
    /\ cm_results[models[2]]
    /\ cm_loads = <<models[2]>>
    /\ cm_exit = 1

====
